---- MODULE Spec2Model ----
(***************************************************************************)
(* Packet-trace analysis engines of the networking-learning repository:    *)
(*   scripts/wireshark-analyzer.py   WiresharkAnalyzer                     *)
(*   scripts/tshark-analyzer.py      TsharkAnalyzer                        *)
(*   scripts/tcpdump-analyzer.py     PacketAnalyzer                        *)
(*   modules/02-protocols/dhcp/dhcp-analyzer.py  DHCPAnalyzer              *)
(*                                                                         *)
(* Python strings are sequences of code points (naturals), so that         *)
(* indexing, splitting, comparison and int() act on the characters.        *)
(* Python dicts are functions; a missing key is a key outside DOMAIN.      *)
(***************************************************************************)
EXTENDS Integers, Sequences, FiniteSets, TLC

VARIABLES
    w_pc,        \* WiresharkAnalyzer.run_analysis: "start","loop","analyzed","done",
                 \* "failed" (no packets), "crashed" (generate_report raised)
    w_packets,   \* the list capture_packets returned
    w_i,         \* number of packets the loop of analyze_packets has visited
    w_analysis,  \* the analysis dict of analyze_packets
    w_warnings,  \* log_warning calls made by analyze_packets
    w_report,    \* the document generate_report wrote (<<>> before that)
    w_records,   \* the records the capture tool decoded for the wireshark run
    w_enc,       \* the encoding the capture tool wrote them in
    t_pc,        \* TsharkAnalyzer: "start","parse","loop","analyzed","done","failed",
                 \* "exited"
    t_records,   \* the records the capture tool decoded for the tshark run
    t_enc,       \* the encoding the capture tool wrote them in
    t_payload,   \* result.stdout, the text handed to analyze_packets
    t_packets,   \* the packets list analyze_packets parsed
    t_i,         \* number of packets its loop has visited
    t_analysis,  \* its analysis dict
    t_error,     \* the "error" entry of the dict it returns instead, "" if none
    t_report,    \* the results save_results wrote (<<>> before that)
    t_exit,      \* the exit code of tshark-analyzer main, -1 while it runs
    p_pc,        \* tcpdump-analyzer main: "start","parsed","reported"
    p_packets,   \* PacketAnalyzer.packets
    p_stats,     \* PacketAnalyzer.stats
    p_anomalies, \* the list detect_anomalies returned to generate_report
    p_runs,      \* how many times generate_report has run
    p_calls,     \* how many times parse_tcpdump_output has been called
    p_fed,       \* the lines handed to parse_tcpdump_output so far, in order
    d_pc,        \* DHCPAnalyzer.run_analysis: "start","loop","analyzed","done","failed"
    d_packets,   \* the list capture_dhcp_packets returned
    d_i,         \* number of packets the loop of analyze_dhcp_flow has visited
    d_analysis,  \* the analysis dict of analyze_dhcp_flow
    d_report     \* the document generate_report wrote (<<>> before that)

wvars == <<w_pc, w_packets, w_i, w_analysis, w_warnings, w_report, w_records, w_enc>>

tvars == <<t_pc, t_records, t_enc, t_payload, t_packets, t_i, t_analysis,
           t_error, t_report, t_exit>>

pvars == <<p_pc, p_packets, p_stats, p_anomalies, p_runs, p_calls, p_fed>>

dvars == <<d_pc, d_packets, d_i, d_analysis, d_report>>

vars == <<wvars, tvars, pvars, dvars>>

----------------------------------------------------------------------------
(* Bounds of the model.                                                    *)

\* longest packet list a capture hands to analyze_packets
MaxPackets == 3

----------------------------------------------------------------------------
(* Strings.                                                                *)

EmptyStr == <<>>

\* Python's str < str: code point by code point, a proper prefix is smaller
RECURSIVE LexLess(_, _)
LexLess(a, b) ==
    IF b = <<>> THEN FALSE
    ELSE IF a = <<>> THEN TRUE
    ELSE IF a[1] # b[1] THEN a[1] < b[1]
    ELSE LexLess(Tail(a), Tail(b))

\* tuple(sorted([a, b]))
SortedPair(a, b) == IF LexLess(b, a) THEN <<b, a>> ELSE <<a, b>>

\* s.split(sep) for a one-character separator: always at least one segment
RECURSIVE SplitFrom(_, _, _)
SplitFrom(s, sep, cur) ==
    IF s = <<>> THEN <<cur>>
    ELSE IF s[1] = sep THEN <<cur>> \o SplitFrom(Tail(s), sep, <<>>)
    ELSE SplitFrom(Tail(s), sep, Append(cur, s[1]))

Split(s, sep) == SplitFrom(s, sep, <<>>)

IsDigit(c) == c >= 48 /\ c <= 57

RECURSIVE DigitsValue(_, _)
DigitsValue(s, acc) ==
    IF s = <<>> THEN acc ELSE DigitsValue(Tail(s), acc * 10 + (s[1] - 48))

\* int(s) on a string: a ValueError unless s is a non-empty run of digits
\* (signs, blanks and underscores are outside the inputs of this model)
ParseInt(s) ==
    IF s # <<>> /\ \A k \in 1..Len(s) : IsDigit(s[k])
    THEN [ok |-> TRUE, v |-> DigitsValue(s, 0)]
    ELSE [ok |-> FALSE, v |-> 0]

\* c in s
Contains(s, c) == \E k \in 1..Len(s) : s[k] = c

\* d[k] = d.get(k, 0) + n
AddTo(d, k, n) ==
    IF k \in DOMAIN d THEN [d EXCEPT ![k] = @ + n] ELSE d @@ (k :> n)

Inc(d, k) == AddTo(d, k, 1)

EmptyDict == <<>>

RECURSIVE SumOver(_, _)
SumOver(d, keys) ==
    IF keys = {} THEN 0
    ELSE LET k == CHOOSE x \in keys : TRUE IN d[k] + SumOver(d, keys \ {k})

\* sum(d.values())
SumValues(d) == SumOver(d, DOMAIN d)

----------------------------------------------------------------------------
(* Decoded packets as the capture tool emits them.  A JSON value is tagged *)
(* by its type: [t |-> "list", v |-> <<strings>>], [t |-> "str", v |-> s]. *)
(* A packet is [t |-> "obj", layers |-> field name -> value] or a JSON     *)
(* value that is no object, [t |-> "num"].                                 *)

L(s) == [t |-> "list", v |-> <<s>>]
S(s) == [t |-> "str", v |-> s]

\* "10.0.0.1", "10.0.0.2", "10.0.0.10"
HostA  == <<49, 48, 46, 48, 46, 48, 46, 49>>
HostB  == <<49, 48, 46, 48, 46, 48, 46, 50>>
HostC  == <<49, 48, 46, 48, 46, 48, 46, 49, 48>>

\* "eth:ip:tcp", "eth:ip:udp:dns", "eth::ip", ":", "eth:arp"
ProtoTcp    == <<101, 116, 104, 58, 105, 112, 58, 116, 99, 112>>
ProtoDns    == <<101, 116, 104, 58, 105, 112, 58, 117, 100, 112, 58, 100, 110, 115>>
ProtoGap    == <<101, 116, 104, 58, 58, 105, 112>>
ProtoColon  == <<58>>
ProtoArp    == <<101, 116, 104, 58, 97, 114, 112>>

\* "60", "40", "1514", "abc", "443", "53", "23"
Len60   == <<54, 48>>
Len40   == <<52, 48>>
Len1514 == <<49, 53, 49, 52>>
LenBad  == <<97, 98, 99>>
Port443 == <<52, 52, 51>>
Port53  == <<53, 51>>
Port23  == <<50, 51>>

\* the packets a capture may hold
PktTcpAB ==
    [t |-> "obj", layers |->
        [x \in {"frame.len", "frame.protocols", "ip.src", "ip.dst",
                "tcp.srcport", "tcp.dstport"} |->
            CASE x = "frame.len" -> L(Len60)
              [] x = "frame.protocols" -> L(ProtoTcp)
              [] x = "ip.src" -> L(HostA)
              [] x = "ip.dst" -> L(HostB)
              [] x = "tcp.srcport" -> L(Port443)
              [] x = "tcp.dstport" -> L(Port23)]]

PktTcpBA ==
    [t |-> "obj", layers |->
        [x \in {"frame.len", "frame.protocols", "ip.src", "ip.dst",
                "tcp.srcport", "tcp.dstport"} |->
            CASE x = "frame.len" -> L(Len40)
              [] x = "frame.protocols" -> L(ProtoGap)
              [] x = "ip.src" -> L(HostB)
              [] x = "ip.dst" -> L(HostA)
              [] x = "tcp.srcport" -> L(Port23)
              [] x = "tcp.dstport" -> L(Port443)]]

\* a loopback DNS query: src = dst
PktDnsAA ==
    [t |-> "obj", layers |->
        [x \in {"frame.len", "frame.protocols", "ip.src", "ip.dst",
                "udp.srcport", "udp.dstport"} |->
            CASE x = "frame.len" -> L(Len1514)
              [] x = "frame.protocols" -> L(ProtoDns)
              [] x = "ip.src" -> L(HostA)
              [] x = "ip.dst" -> L(HostA)
              [] x = "udp.srcport" -> L(Port53)
              [] x = "udp.dstport" -> L(Port53)]]

\* only a source address, an all-empty protocol stack ":"
PktSrcOnly ==
    [t |-> "obj", layers |->
        [x \in {"frame.len", "frame.protocols", "ip.src",
                "tcp.srcport", "tcp.dstport"} |->
            CASE x = "frame.len" -> L(Len40)
              [] x = "frame.protocols" -> L(ProtoColon)
              [] x = "ip.src" -> L(HostC)
              [] x = "tcp.srcport" -> L(Port443)
              [] x = "tcp.dstport" -> L(Port443)]]

\* no frame.protocols and no frame.len field at all
PktNoProto ==
    [t |-> "obj", layers |->
        [x \in {"ip.src", "ip.dst", "tcp.srcport", "tcp.dstport"} |->
            CASE x = "ip.src" -> L(HostC)
              [] x = "ip.dst" -> L(HostA)
              [] x = "tcp.srcport" -> L(Port443)
              [] x = "tcp.dstport" -> L(Port443)]]

\* frame.len is "abc"
PktBadLen ==
    [t |-> "obj", layers |->
        [x \in {"frame.len", "frame.protocols", "ip.src", "ip.dst",
                "tcp.srcport", "tcp.dstport"} |->
            CASE x = "frame.len" -> L(LenBad)
              [] x = "frame.protocols" -> L(ProtoTcp)
              [] x = "ip.src" -> L(HostA)
              [] x = "ip.dst" -> L(HostB)
              [] x = "tcp.srcport" -> L(Port443)
              [] x = "tcp.dstport" -> L(Port23)]]

\* an ARP frame: neither tcp nor udp ports
PktArp ==
    [t |-> "obj", layers |->
        [x \in {"frame.len", "frame.protocols"} |->
            CASE x = "frame.len" -> L(Len60)
              [] x = "frame.protocols" -> L(ProtoArp)]]

\* an array element that is no object
PktNum == [t |-> "num", layers |-> <<>>]

PacketChoices ==
    {PktTcpAB, PktTcpBA, PktDnsAA, PktSrcOnly, PktNoProto, PktBadLen, PktArp, PktNum}

\* PktTcpAB with ip.src written as the bare string "10.0.0.1"
PktBareSrc == [PktTcpAB EXCEPT !.layers["ip.src"] = S(HostA)]

\* PktTcpAB with ip.src written as the bare string ""
PktBareEmpty == [PktTcpAB EXCEPT !.layers["ip.src"] = S(EmptyStr)]

\* "eth:ip:tcp:http", "80", "0x0004" (the tcp.flags of a reset), "dns",
\* "http", "tcp"
ProtoHttp == <<101, 116, 104, 58, 105, 112, 58, 116, 99, 112, 58, 104, 116, 116, 112>>
Port80    == <<56, 48>>
FlagsRst  == <<48, 120, 48, 48, 48, 52>>
NameDns   == <<100, 110, 115>>
NameHttp  == <<104, 116, 116, 112>>
NameTcp   == <<116, 99, 112>>

\* a well-formed record src -> dst with the ports of its transport layer
WRecord(protos, src, dst, transport, sport, dport) ==
    [t |-> "obj", layers |->
        [x \in {"frame.len", "frame.protocols", "ip.src", "ip.dst",
                transport \o ".srcport", transport \o ".dstport"} |->
            CASE x = "frame.len" -> L(Len60)
              [] x = "frame.protocols" -> L(protos)
              [] x = "ip.src" -> L(src)
              [] x = "ip.dst" -> L(dst)
              [] x = transport \o ".srcport" -> L(sport)
              [] x = transport \o ".dstport" -> L(dport)]]

\* a TCP segment with the RST flag set
WReset(src, dst, sport, dport) ==
    LET r == WRecord(ProtoTcp, src, dst, "tcp", sport, dport) IN
    [t |-> "obj", layers |->
        [x \in DOMAIN r.layers \cup {"tcp.flags"} |->
            IF x = "tcp.flags" THEN L(FlagsRst) ELSE r.layers[x]]]

\* two DNS, two HTTP and two TCP-with-RST records
SixRecords ==
    << WRecord(ProtoDns, HostA, HostC, "udp", Port443, Port53),
       WRecord(ProtoDns, HostC, HostA, "udp", Port53, Port443),
       WRecord(ProtoHttp, HostA, HostB, "tcp", Port443, Port80),
       WRecord(ProtoHttp, HostB, HostA, "tcp", Port80, Port443),
       WReset(HostA, HostB, Port443, Port23),
       WReset(HostB, HostA, Port23, Port443) >>

\* "eth:ip:ip": an IP datagram carried in an IP datagram
ProtoTunnel == <<101, 116, 104, 58, 105, 112, 58, 105, 112>>

PktTunnel == [PktTcpAB EXCEPT !.layers["frame.protocols"] = L(ProtoTunnel)]

\* captures written out in full
CannedCaptures ==
    { <<PktBareSrc>>, <<PktBareEmpty>>, <<PktTcpBA, PktBareSrc>>, SixRecords,
      <<PktTcpAB, PktTunnel, PktTunnel>> }

PacketLists ==
    UNION {[1..n -> PacketChoices] : n \in 0..MaxPackets} \cup CannedCaptures

----------------------------------------------------------------------------
(* WiresharkAnalyzer.analyze_packets                                       *)

Raised == [ok |-> FALSE, v |-> <<>>]

\* value[0]: the first element of a list, the first character of a string,
\* IndexError on an empty one
Index0(val) ==
    IF Len(val.v) = 0 THEN Raised
    ELSE [ok |-> TRUE, v |-> IF val.t = "list" THEN val.v[1] ELSE <<val.v[1]>>]

\* layers.get(key, [dflt])[0]
Get0(layers, key, dflt) ==
    Index0(IF key \in DOMAIN layers THEN layers[key] ELSE L(dflt))

\* layers.get(tcpKey, layers.get(udpKey, [''])[0])[0]: the default is
\* evaluated first, and it is a string, not a list
GetPort(layers, tcpKey, udpKey) ==
    LET inner == Get0(layers, udpKey, EmptyStr) IN
    IF ~inner.ok THEN Raised
    ELSE Index0(IF tcpKey \in DOMAIN layers THEN layers[tcpKey]
                ELSE [t |-> "str", v |-> inner.v])

\* the fields packet_info reads with layers.get(key, [''])[0] and keeps
\* without using them in the aggregates
OtherFields ==
    {"frame.number", "ip.proto", "tcp.len", "udp.length", "icmp.code",
     "dns.qry.name", "dns.resp.name", "http.request.uri",
     "http.response.code", "http.host", "dhcp.option.dhcp"}

\* the packet_info dict of one packet, or ok = FALSE when building it raises
PacketInfo(packet) ==
    IF packet.t # "obj" THEN [ok |-> FALSE]
    ELSE
    LET layers == packet.layers
        ts     == Get0(layers, "frame.time", EmptyStr)
        len    == Get0(layers, "frame.len", <<48>>)
        ilen   == IF len.ok THEN ParseInt(len.v) ELSE [ok |-> FALSE, v |-> 0]
        protos == Get0(layers, "frame.protocols", EmptyStr)
        src    == Get0(layers, "ip.src", EmptyStr)
        dst    == Get0(layers, "ip.dst", EmptyStr)
        sport  == GetPort(layers, "tcp.srcport", "udp.srcport")
        dport  == GetPort(layers, "tcp.dstport", "udp.dstport")
        flags  == Get0(layers, "tcp.flags", EmptyStr)
        icmp   == Get0(layers, "icmp.type", EmptyStr)
        method == Get0(layers, "http.request.method", EmptyStr)
    IN  IF /\ ts.ok /\ ilen.ok /\ protos.ok /\ src.ok /\ dst.ok
           /\ sport.ok /\ dport.ok /\ flags.ok /\ icmp.ok /\ method.ok
           /\ \A f \in OtherFields : Get0(layers, f, EmptyStr).ok
        THEN [ok |-> TRUE, timestamp |-> ts.v, length |-> ilen.v,
              protocols |-> protos.v, src_ip |-> src.v, dst_ip |-> dst.v,
              src_port |-> sport.v, dst_port |-> dport.v,
              tcp_flags |-> flags.v, icmp_type |-> icmp.v,
              http_method |-> method.v]
        ELSE [ok |-> FALSE]

\* packet_info['protocols'].split(':') if packet_info['protocols'] else []
ProtocolList(info) ==
    IF info.protocols # <<>> THEN Split(info.protocols, 58) ELSE <<>>

\* for protocol in protocols: if protocol: protocols[protocol] += 1
RECURSIVE CountProtocols(_, _)
CountProtocols(d, protos) ==
    IF protos = <<>> THEN d
    ELSE CountProtocols(IF Head(protos) # <<>> THEN Inc(d, Head(protos)) ELSE d,
                        Tail(protos))

\* one increment per distinct address of the record
CountEndpointsOnce(d, info) ==
    LET d1 == IF info.src_ip # <<>> THEN Inc(d, info.src_ip) ELSE d
    IN  IF info.dst_ip # <<>> /\ info.dst_ip # info.src_ip
        THEN Inc(d1, info.dst_ip) ELSE d1

\* the two independent endpoint increments, source first
CountEndpoints(d, info) ==
    LET d1 == IF info.src_ip # <<>> THEN Inc(d, info.src_ip) ELSE d
    IN  IF info.dst_ip # <<>> THEN Inc(d1, info.dst_ip) ELSE d1

\* the pair as it arrives, source first
ConvKeyUnsorted(info) == <<info.src_ip, info.dst_ip>>

ConvKey(info) == SortedPair(info.src_ip, info.dst_ip)

CountConversation(d, info) ==
    IF info.src_ip # <<>> /\ info.dst_ip # <<>> THEN Inc(d, ConvKey(info)) ELSE d

CountTalker(d, info) ==
    IF info.src_ip # <<>> THEN AddTo(d, info.src_ip, info.length) ELSE d

\* _update_protocol_hierarchy: the nested dict is held as path -> count, the
\* node reached through p1, .., pk being the path <<p1, .., pk>>
RECURSIVE UpdateHierarchyFrom(_, _, _)
UpdateHierarchyFrom(h, current, protos) ==
    IF protos = <<>> THEN h
    ELSE IF Head(protos) # <<>>
         THEN UpdateHierarchyFrom(Inc(h, Append(current, Head(protos))),
                                  Append(current, Head(protos)), Tail(protos))
         ELSE UpdateHierarchyFrom(h, current, Tail(protos))

\* the walk without the "if protocol" test
RECURSIVE HierarchyKeepEmptyFrom(_, _, _)
HierarchyKeepEmptyFrom(h, current, protos) ==
    IF protos = <<>> THEN h
    ELSE HierarchyKeepEmptyFrom(Inc(h, Append(current, Head(protos))),
                                Append(current, Head(protos)), Tail(protos))

HierarchyKeepEmpty(h, protos) == HierarchyKeepEmptyFrom(h, <<>>, protos)

\* the walk that creates every node but counts the record only at the
\* deepest one
RECURSIVE HierarchyLeafOnlyFrom(_, _, _)
HierarchyLeafOnlyFrom(h, current, protos) ==
    IF protos = <<>> THEN h
    ELSE IF Head(protos) # <<>>
         THEN HierarchyLeafOnlyFrom(
                  AddTo(h, Append(current, Head(protos)),
                        IF \A k \in 1..Len(Tail(protos)) : Tail(protos)[k] = <<>>
                        THEN 1 ELSE 0),
                  Append(current, Head(protos)), Tail(protos))
         ELSE HierarchyLeafOnlyFrom(h, current, Tail(protos))

HierarchyLeafOnly(h, protos) == HierarchyLeafOnlyFrom(h, <<>>, protos)

\* the walk that passes over a protocol named like the node it stands in
RECURSIVE HierarchyNoRepeatFrom(_, _, _)
HierarchyNoRepeatFrom(h, current, protos) ==
    IF protos = <<>> THEN h
    ELSE IF Head(protos) # <<>>
            /\ (current = <<>> \/ current[Len(current)] # Head(protos))
         THEN HierarchyNoRepeatFrom(Inc(h, Append(current, Head(protos))),
                                    Append(current, Head(protos)), Tail(protos))
         ELSE HierarchyNoRepeatFrom(h, current, Tail(protos))

HierarchyNoRepeat(h, protos) == HierarchyNoRepeatFrom(h, <<>>, protos)

UpdateProtocolHierarchy(h, protos) == UpdateHierarchyFrom(h, <<>>, protos)

\* _analyze_errors
AnalyzeErrors(e, info) ==
    LET e1 == IF info.tcp_flags # <<>> /\ Contains(info.tcp_flags, 82)
              THEN Inc(e, "tcp_resets") ELSE e
    IN  IF info.icmp_type = <<51>> THEN Inc(e1, "icmp_dest_unreach")
        ELSE IF info.icmp_type = <<49, 49>> THEN Inc(e1, "icmp_time_exceeded")
        ELSE e1

\* '23', '21', '135', '139', '445', '1433', '3389'
SuspiciousPorts ==
    {<<50, 51>>, <<50, 49>>, <<49, 51, 53>>, <<49, 51, 57>>, <<52, 52, 53>>,
     <<49, 52, 51, 51>>, <<51, 51, 56, 57>>}

LargePacketLimit == 1500

\* _analyze_security ('POST' is 80 79 83 84)
AnalyzeSecurity(s, info) ==
    LET s1 == IF info.dst_port # <<>> /\ info.dst_port \in SuspiciousPorts
              THEN Inc(s, "suspicious_ports") ELSE s
        s2 == IF info.length > LargePacketLimit THEN Inc(s1, "large_packets") ELSE s1
    IN  IF info.http_method = <<80, 79, 83, 84>> THEN Inc(s2, "http_posts") ELSE s2

\* the analysis dict before the loop
NewAnalysis(packets) ==
    [total_packets |-> Len(packets), total_bytes |-> 0,
     protocols |-> EmptyDict, endpoints |-> EmptyDict,
     conversations |-> EmptyDict, top_talkers |-> EmptyDict,
     protocol_hierarchy |-> EmptyDict, packet_times |-> <<>>,
     error_analysis |-> EmptyDict, security_analysis |-> EmptyDict]

\* the body of the loop once packet_info is built
Aggregate(a, info) ==
    [total_packets      |-> a.total_packets,
     total_bytes        |-> a.total_bytes + info.length,
     protocols          |-> CountProtocols(a.protocols, ProtocolList(info)),
     endpoints          |-> CountEndpoints(a.endpoints, info),
     conversations      |-> CountConversation(a.conversations, info),
     top_talkers        |-> CountTalker(a.top_talkers, info),
     protocol_hierarchy |-> UpdateProtocolHierarchy(a.protocol_hierarchy,
                                                    ProtocolList(info)),
     packet_times       |-> Append(a.packet_times, info.timestamp),
     error_analysis     |-> AnalyzeErrors(a.error_analysis, info),
     security_analysis  |-> AnalyzeSecurity(a.security_analysis, info)]

\* one pass of the loop body: try ... except Exception: log_warning; continue
AnalyzePacket(a, packet) ==
    LET info == PacketInfo(packet) IN IF info.ok THEN Aggregate(a, info) ELSE a

----------------------------------------------------------------------------
(* The text the capture tool writes.  It is held as a sequence of tokens:  *)
(* "[", "]", ",", a line break "nl", "val" for the text of one complete    *)
(* JSON value written on one line (pkt is the value it decodes to), and    *)
(* "junk" for text that is no JSON (a tool warning, a truncated object).   *)

Tok(k) == [k |-> k, pkt |-> PktNum]
TokVal(p) == [k |-> "val", pkt |-> p]

\* the two encodings of a record sequence, and newline-delimited output
\* with one line of junk before record j
RECURSIVE JoinArray(_)
JoinArray(rs) ==
    IF rs = <<>> THEN <<>>
    ELSE IF Len(rs) = 1 THEN <<TokVal(rs[1]), Tok("nl")>>
    ELSE <<TokVal(rs[1]), Tok(","), Tok("nl")>> \o JoinArray(Tail(rs))

ArrayEncoding(rs) == <<Tok("["), Tok("nl")>> \o JoinArray(rs) \o <<Tok("]"), Tok("nl")>>

RECURSIVE LineEncoding(_)
LineEncoding(rs) ==
    IF rs = <<>> THEN <<>>
    ELSE <<TokVal(rs[1]), Tok("nl")>> \o LineEncoding(Tail(rs))

JunkLineEncoding(rs, j) ==
    LineEncoding(SubSeq(rs, 1, j - 1)) \o <<Tok("junk"), Tok("nl")>>
        \o LineEncoding(SubSeq(rs, j, Len(rs)))

Encode(enc, rs) ==
    CASE enc = "array" -> ArrayEncoding(rs)
      [] enc = "ndjson" -> LineEncoding(rs)
      [] OTHER -> JunkLineEncoding(rs, (Len(rs) + 2) \div 2)

NotBreak(tok) == tok.k # "nl"

\* text.strip()
RECURSIVE StripLeft(_)
StripLeft(text) ==
    IF text # <<>> /\ Head(text).k = "nl" THEN StripLeft(Tail(text)) ELSE text

RECURSIVE StripRight(_)
StripRight(text) ==
    IF text # <<>> /\ text[Len(text)].k = "nl"
    THEN StripRight(SubSeq(text, 1, Len(text) - 1)) ELSE text

Strip(text) == StripRight(StripLeft(text))

\* text.split('\n')
RECURSIVE SplitLinesFrom(_, _)
SplitLinesFrom(text, cur) ==
    IF text = <<>> THEN <<cur>>
    ELSE IF Head(text).k = "nl" THEN <<cur>> \o SplitLinesFrom(Tail(text), <<>>)
    ELSE SplitLinesFrom(Tail(text), Append(cur, Head(text)))

SplitLines(text) == SplitLinesFrom(text, <<>>)

\* json.loads(text): one value, or an array of values separated by commas,
\* white space allowed between the tokens; anything else is a
\* JSONDecodeError (arrays inside arrays are outside the inputs of the model)
JsonLoads(text) ==
    LET body  == SelectSeq(text, NotBreak)
        n     == Len(body)
        inner == SubSeq(body, 2, n - 1)
    IN  IF n = 1 /\ body[1].k = "val"
        THEN [ok |-> TRUE, isList |-> FALSE, items |-> <<body[1].pkt>>]
        ELSE IF /\ n >= 2 /\ body[1].k = "[" /\ body[n].k = "]"
                /\ (Len(inner) = 0 \/ Len(inner) % 2 = 1)
                /\ \A k \in 1..Len(inner) :
                      inner[k].k = (IF k % 2 = 1 THEN "val" ELSE ",")
        THEN [ok |-> TRUE, isList |-> TRUE,
              items |-> [k \in 1..((Len(inner) + 1) \div 2) |-> inner[2 * k - 1].pkt]]
        ELSE [ok |-> FALSE, isList |-> FALSE, items |-> <<>>]

\* a decoded value that is a string, and one that is a list
PktStr  == [t |-> "str", layers |-> <<>>]
PktList == [t |-> "list", layers |-> <<>>]

\* the keys of one element of the capture tool's JSON output, which
\* iterating over a dict yields: "_index", "_type", "_score", "_source"
ObjectKeys == <<PktStr, PktStr, PktStr, PktStr>>

----------------------------------------------------------------------------
(* WiresharkAnalyzer.capture_packets                                       *)

\* json.loads(result.stdout) with its two except clauses: a list is
\* returned as it is, a dict too (and is later iterated by its keys), a
\* value without len() and a JSONDecodeError both give []
WParseCapture(text) ==
    LET r == JsonLoads(text) IN
    IF ~r.ok THEN <<>>
    ELSE IF r.isList THEN r.items
    ELSE IF r.items[1].t = "obj" THEN ObjectKeys
    ELSE <<>>

----------------------------------------------------------------------------
(* TsharkAnalyzer.analyze_packets and _analyze_packet                      *)

D(f) == [t |-> "dict", v |-> f]

\* "12:00:01"
Time1 == <<49, 50, 58, 48, 48, 58, 48, 49>>

\* packets in the nested form of the full JSON output
TPktTcpAB ==
    [t |-> "obj", layers |->
        ("frame" :> D(("frame.protocols" :> S(ProtoTcp)) @@ ("frame.len" :> S(Len60))
                      @@ ("frame.time" :> S(Time1))))
        @@ ("ip" :> D(("ip.src" :> S(HostA)) @@ ("ip.dst" :> S(HostB))))
        @@ ("tcp" :> D(("tcp.srcport" :> S(Port443)) @@ ("tcp.dstport" :> S(Port23))))]

TPktDnsAA ==
    [t |-> "obj", layers |->
        ("frame" :> D(("frame.protocols" :> S(ProtoDns)) @@ ("frame.len" :> S(Len1514))))
        @@ ("ip" :> D(("ip.src" :> S(HostA)) @@ ("ip.dst" :> S(HostA))))
        @@ ("udp" :> D(("udp.srcport" :> S(Port53)) @@ ("udp.dstport" :> S(Port53))))]

\* frame.len is "abc"
TPktBadLen ==
    [t |-> "obj", layers |->
        ("frame" :> D(("frame.protocols" :> S(ProtoTcp)) @@ ("frame.len" :> S(LenBad))))
        @@ ("ip" :> D(("ip.src" :> S(HostB)) @@ ("ip.dst" :> S(HostA))))
        @@ ("tcp" :> D(("tcp.srcport" :> S(Port23)) @@ ("tcp.dstport" :> S(Port443))))]

\* no frame layer; only a source address
TPktSrcOnly ==
    [t |-> "obj", layers |-> ("ip" :> D(("ip.src" :> S(HostC))))]

\* the tcp layer is a string, not an object
TPktTcpText ==
    [t |-> "obj", layers |->
        ("frame" :> D(("frame.protocols" :> S(ProtoGap)) @@ ("frame.len" :> S(Len40))))
        @@ ("ip" :> D(("ip.src" :> S(HostB)) @@ ("ip.dst" :> S(HostC))))
        @@ ("tcp" :> S(Port443))]

TPacketChoices == {TPktTcpAB, TPktDnsAA, TPktBadLen, TPktSrcOnly, TPktTcpText, PktNum}

\* longest record sequence the capture tool writes for the tshark run
MaxRecords == 3

TRecordLists == UNION {[1..n -> TPacketChoices] : n \in 0..MaxRecords}

Encodings == {"array", "ndjson", "ndjson_junk"}

\* the parsing part of analyze_packets: the whole payload first, the lines
\* one by one when that fails, a line that fails is dropped
RECURSIVE ParseLines(_)
ParseLines(lines) ==
    IF lines = <<>> THEN <<>>
    ELSE LET line == Head(lines)
             r    == JsonLoads(line)
         IN  IF Strip(line) = <<>> \/ ~r.ok THEN ParseLines(Tail(lines))
             ELSE <<IF r.isList THEN PktList ELSE r.items[1]>> \o ParseLines(Tail(lines))

PerLineOnly(text) == ParseLines(SplitLines(Strip(text)))

TParsePackets(text) ==
    LET r == JsonLoads(Strip(text)) IN
    IF r.ok THEN r.items ELSE ParseLines(SplitLines(Strip(text)))

TNewAnalysis(packets) ==
    [total_packets |-> Len(packets), protocols |-> EmptyDict, hosts |-> EmptyDict,
     host_order |-> <<>>,
     ports |-> EmptyDict, packet_sizes |-> <<>>, timestamps |-> <<>>,
     errors |-> <<>>]

\* a step of _analyze_packet: the dict so far, and whether it raised
Ok(a)    == [a |-> a, raised |-> FALSE]
Raise(a) == [a |-> a, raised |-> TRUE]

\* layer.get(key, dflt) of a layer that is a dict
Field(layer, key, dflt) == IF key \in DOMAIN layer.v THEN layer.v[key].v ELSE dflt

TStepProtocols(a, fi) ==
    IF "frame" \notin DOMAIN fi THEN Ok(a)
    ELSE IF fi["frame"].t # "dict" THEN Raise(a)
    ELSE Ok([a EXCEPT !.protocols =
                CountProtocols(@, Split(Field(fi["frame"], "frame.protocols", EmptyStr), 58))])

\* the keys of a dict in the order they were first set, which is the order
\* .items() yields them in: k after a store to d[k]
Noted(order, k) ==
    IF \E n \in 1..Len(order) : order[n] = k THEN order ELSE Append(order, k)

TStepHosts(a, fi) ==
    IF "ip" \notin DOMAIN fi THEN Ok(a)
    ELSE IF fi["ip"].t # "dict" THEN Raise(a)
    ELSE LET src == Field(fi["ip"], "ip.src", EmptyStr)
             dst == Field(fi["ip"], "ip.dst", EmptyStr)
             h1  == IF src # <<>> THEN Inc(a.hosts, src) ELSE a.hosts
             o1  == IF src # <<>> THEN Noted(a.host_order, src) ELSE a.host_order
         IN  Ok([a EXCEPT !.hosts = IF dst # <<>> THEN Inc(h1, dst) ELSE h1,
                          !.host_order = IF dst # <<>> THEN Noted(o1, dst) ELSE o1])

\* "TCP:" and "UDP:"
TcpPrefix == <<84, 67, 80, 58>>
UdpPrefix == <<85, 68, 80, 58>>

PortCounts(d, prefix, sport, dport) ==
    LET d1 == IF sport # <<>> THEN Inc(d, prefix \o sport) ELSE d
    IN  IF dport # <<>> THEN Inc(d1, prefix \o dport) ELSE d1

TStepPorts(a, fi) ==
    IF "tcp" \in DOMAIN fi
    THEN IF fi["tcp"].t # "dict" THEN Raise(a)
         ELSE Ok([a EXCEPT !.ports =
                     PortCounts(@, TcpPrefix, Field(fi["tcp"], "tcp.srcport", EmptyStr),
                                Field(fi["tcp"], "tcp.dstport", EmptyStr))])
    ELSE IF "udp" \in DOMAIN fi
    THEN IF fi["udp"].t # "dict" THEN Raise(a)
         ELSE Ok([a EXCEPT !.ports =
                     PortCounts(@, UdpPrefix, Field(fi["udp"], "udp.srcport", EmptyStr),
                                Field(fi["udp"], "udp.dstport", EmptyStr))])
    ELSE Ok(a)

\* int(frame_len) with its own "except ValueError: pass"
TStepSize(a, fi) ==
    IF "frame" \notin DOMAIN fi THEN Ok(a)
    ELSE LET n == ParseInt(Field(fi["frame"], "frame.len", <<48>>))
         IN  Ok(IF n.ok THEN [a EXCEPT !.packet_sizes = Append(@, n.v)] ELSE a)

TStepTime(a, fi) ==
    IF "frame" \notin DOMAIN fi THEN Ok(a)
    ELSE LET ts == Field(fi["frame"], "frame.time", EmptyStr)
         IN  Ok(IF ts # <<>> THEN [a EXCEPT !.timestamps = Append(@, ts)] ELSE a)

\* the try block, statement after statement until one raises
TTryBlock(a, packet) ==
    IF packet.t # "obj" THEN Raise(a)
    ELSE LET fi == packet.layers
             r1 == TStepProtocols(a, fi)
             r2 == IF r1.raised THEN r1 ELSE TStepHosts(r1.a, fi)
             r3 == IF r2.raised THEN r2 ELSE TStepPorts(r2.a, fi)
             r4 == IF r3.raised THEN r3 ELSE TStepSize(r3.a, fi)
         IN  IF r4.raised THEN r4 ELSE TStepTime(r4.a, fi)

\* _analyze_packet: except Exception appends to analysis['errors']
TAnalyzePacket(a, packet) ==
    LET r == TTryBlock(a, packet) IN
    IF r.raised THEN [r.a EXCEPT !.errors = Append(@, "Packet analysis error")]
    ELSE r.a

\* sum(q), added up by halves
RECURSIVE SumSeq(_)
SumSeq(q) ==
    IF q = <<>> THEN 0
    ELSE IF Len(q) = 1 THEN q[1]
    ELSE SumSeq(SubSeq(q, 1, Len(q) \div 2)) + SumSeq(SubSeq(q, Len(q) \div 2 + 1, Len(q)))

\* where sorted(..., key=lambda x: x[1], reverse=True) places k among keys
\* already placed: before the first key of a smaller count, so after every
\* key of the same count (the sort is stable, also when reversed)
InsertByCount(d, placed, k) ==
    LET smaller == {n \in 1..Len(placed) : d[placed[n]] < d[k]}
        at == IF smaller = {} THEN Len(placed) + 1
              ELSE CHOOSE n \in smaller : \A m \in smaller : n <= m
    IN  SubSeq(placed, 1, at - 1) \o <<k>> \o SubSeq(placed, at, Len(placed))

\* sorted(d.items(), key=lambda x: x[1], reverse=True), as the keys
RECURSIVE SortedByCount(_, _)
SortedByCount(d, order) ==
    IF order = <<>> THEN <<>>
    ELSE InsertByCount(d, SortedByCount(d, SubSeq(order, 1, Len(order) - 1)),
                       order[Len(order)])

\* the length of a top listing: [:10]
TopN == 10

Take(q, n) == SubSeq(q, 1, IF Len(q) < n THEN Len(q) ELSE n)

\* generate_statistics: the packet count, the packet size totals and the
\* top hosts
TStatistics(a) ==
    [packet_count |-> a.total_packets,
     total_bytes  |-> SumSeq(a.packet_sizes),
     sized        |-> Len(a.packet_sizes),
     top_hosts    |-> Take(SortedByCount(a.hosts, a.host_order), TopN)]

----------------------------------------------------------------------------
(* tcpdump-analyzer.py: PacketAnalyzer.  A line of tcpdump text is held by *)
(* the parts the regular expressions of parse_packet_line look at:         *)
(*   blank   the line is empty or white space                              *)
(*   ts      the text ^\d{2}:\d{2}:\d{2}\.\d+ matched, <<>> if none        *)
(*   form    "ports":   IP a.b.c.d.p > a.b.c.d.p:                          *)
(*           "noports": IP a.b.c.d > a.b.c.d:                              *)
(*           "other":   neither                                            *)
(*   marker  the word after the colon: "UDP", "ICMP", "Flags" or ""        *)
(*   flags   the characters between the brackets of "Flags [..]"           *)
(*   length  the number after "length ", -1 when the line has none         *)

Line(ts, form, src, sport, dst, dport, marker, flags, length) ==
    [blank |-> FALSE, ts |-> ts, form |-> form, src |-> src, sport |-> sport,
     dst |-> dst, dport |-> dport, marker |-> marker, flags |-> flags,
     length |-> length]

\* "12:00:01.000001"
Stamp1 == <<49, 50, 58, 48, 48, 58, 48, 49, 46, 48, 48, 48, 48, 48, 49>>

\* Flags [R], [R.], [.], [S]
LnRst    == Line(Stamp1, "ports", HostA, Port443, HostB, Port23, "Flags", <<82>>, 0)
LnRstAck == Line(Stamp1, "ports", HostB, Port23, HostA, Port443, "Flags", <<82, 46>>, 0)
LnAck    == Line(Stamp1, "ports", HostA, Port443, HostB, Port53, "Flags", <<46>>, 1448)
LnSyn    == Line(Stamp1, "ports", HostC, Port53, HostA, Port443, "Flags", <<83>>, -1)
LnUdp    == Line(Stamp1, "ports", HostA, Port53, HostB, Port53, "UDP", <<>>, 64)
LnIcmp   == Line(Stamp1, "noports", HostA, <<>>, HostB, <<>>, "ICMP", <<>>, 64)
LnArp    == Line(Stamp1, "other", <<>>, <<>>, <<>>, <<>>, "", <<>>, 28)
LnNoTs   == Line(<<>>, "ports", HostA, Port443, HostB, Port23, "Flags", <<46>>, 0)
LnBlank  == [LnArp EXCEPT !.blank = TRUE]

LineChoices == {LnRst, LnRstAck, LnAck, LnSyn, LnUdp, LnIcmp, LnArp, LnNoTs, LnBlank}

\* the flag tests of parse_packet_line: 'Flags [S]' in line, and so on;
\* each holds only when the brackets hold that one character
FlagList(line) ==
    IF line.marker # "Flags" THEN <<>>
    ELSE (IF line.flags = <<83>> THEN <<"SYN">> ELSE <<>>)
      \o (IF line.flags = <<46>> THEN <<"ACK">> ELSE <<>>)
      \o (IF line.flags = <<70>> THEN <<"FIN">> ELSE <<>>)
      \o (IF line.flags = <<82>> THEN <<"RST">> ELSE <<>>)

\* parse_packet_line: a packet_info dict, or ok = FALSE for None.  The
\* first pattern needs only the port-qualified addresses, so it takes every
\* such line as TCP before the UDP pattern is tried.
ParsePacketLine(line) ==
    IF line.ts = <<>> THEN [ok |-> FALSE]
    ELSE IF line.form = "ports"
    THEN [ok |-> TRUE, timestamp |-> line.ts, src_ip |-> line.src,
          src_port |-> line.sport, dst_ip |-> line.dst, dst_port |-> line.dport,
          protocol |-> "TCP", size |-> IF line.length >= 0 THEN line.length ELSE 0,
          flags |-> FlagList(line), raw_line |-> line]
    ELSE IF line.form = "noports" /\ line.marker = "ICMP"
    THEN [ok |-> TRUE, timestamp |-> line.ts, src_ip |-> line.src,
          src_port |-> <<48>>, dst_ip |-> line.dst, dst_port |-> <<48>>,
          protocol |-> "ICMP", size |-> IF line.length >= 0 THEN line.length ELSE 0,
          flags |-> <<>>, raw_line |-> line]
    ELSE [ok |-> FALSE]

PNewStats ==
    [total_packets |-> 0, protocols |-> EmptyDict, hosts |-> EmptyDict,
     ports |-> EmptyDict, packet_sizes |-> <<>>, timestamps |-> <<>>,
     connections |-> EmptyDict]

\* the connection key f"{src_ip}:{src_port} -> {dst_ip}:{dst_port}", held
\* as the tuple of its four parts
Connection(info) == <<info.src_ip, info.src_port, info.dst_ip, info.dst_port>>

AppendTo(d, k, x) ==
    IF k \in DOMAIN d THEN [d EXCEPT ![k] = Append(@, x)] ELSE d @@ (k :> <<x>>)

\* update_stats
UpdateStats(st, info) ==
    LET p1 == IF info.src_port # <<48>> THEN Inc(st.ports, info.src_port) ELSE st.ports
        p2 == IF info.dst_port # <<48>> THEN Inc(p1, info.dst_port) ELSE p1
    IN  [total_packets |-> st.total_packets + 1,
         protocols     |-> Inc(st.protocols, info.protocol),
         hosts         |-> Inc(Inc(st.hosts, info.src_ip), info.dst_ip),
         ports         |-> p2,
         packet_sizes  |-> Append(st.packet_sizes, info.size),
         timestamps    |-> Append(st.timestamps, info.timestamp),
         connections   |-> AppendTo(st.connections, Connection(info), info)]

\* a loop body that counts the line before it is parsed
ParseOneLineCounting(e, line) ==
    LET info == ParsePacketLine(line) IN
    IF line.blank THEN e
    ELSE IF ~info.ok
    THEN [e EXCEPT !.stats.total_packets = @ + 1]
    ELSE [packets |-> Append(e.packets, info), stats |-> UpdateStats(e.stats, info)]

\* the body of the loop of parse_tcpdump_output for one line
ParseOneLine(e, line) ==
    LET info == ParsePacketLine(line) IN
    IF line.blank \/ ~info.ok THEN e
    ELSE [packets |-> Append(e.packets, info), stats |-> UpdateStats(e.stats, info)]

\* parse_tcpdump_output: the engine as [packets, stats] after the lines, in
\* order.  The text is walked by halves, and the first half is evaluated
\* before the second is entered, to keep the evaluation shallow.
RECURSIVE ParseLinesInto(_, _)
ParseLinesInto(e, lines) ==
    IF lines = <<>> THEN e
    ELSE IF Len(lines) = 1 THEN ParseOneLine(e, lines[1])
    ELSE LET h == Len(lines) \div 2
             a == ParseLinesInto(e, SubSeq(lines, 1, h))
         IN  IF a.stats.total_packets >= 0
             THEN ParseLinesInto(a, SubSeq(lines, h + 1, Len(lines)))
             ELSE a

InSeq(x, q) == \E k \in 1..Len(q) : q[k] = x

\* sum(1 for p in self.packets if 'RST' in p.get('flags', []))
RstPackets(packets) ==
    Cardinality({k \in 1..Len(packets) : InSeq("RST", packets[k].flags)})

\* Counter.most_common(1)[0][1]
MaxCount(d) == CHOOSE n \in {d[k] : k \in DOMAIN d} : \A k \in DOMAIN d : d[k] <= n

\* the sizes above the mean itself
LargePacketsAboveMean(sizes) ==
    Cardinality({k \in 1..Len(sizes) : sizes[k] * Len(sizes) > SumSeq(sizes)})

\* sum(1 for size in packet_sizes if size > avg_size * 2), avg_size being
\* sum(packet_sizes) / len(packet_sizes)
LargePackets(sizes) ==
    Cardinality({k \in 1..Len(sizes) : sizes[k] * Len(sizes) > 2 * SumSeq(sizes)})

\* the detector that stops at the first rule that fires
DetectAnomaliesFirstOnly(packets, st) ==
    IF 10 * RstPackets(packets) > st.total_packets
    THEN <<[kind |-> "HIGH_RESET_RATIO", metric |-> RstPackets(packets)]>>
    ELSE IF DOMAIN st.ports # {} /\ 2 * MaxCount(st.ports) > st.total_packets
    THEN <<[kind |-> "CONCENTRATED_TRAFFIC", metric |-> MaxCount(st.ports)]>>
    ELSE IF LargePackets(st.packet_sizes) > 0
    THEN <<[kind |-> "LARGE_PACKETS", metric |-> LargePackets(st.packet_sizes)]>>
    ELSE <<>>

\* detect_anomalies.  The thresholds are the float products total * 0.1 and
\* total * 0.5 and the float quotient sum / len; on the integers of a
\* capture the comparisons decide as the exact ones 10 * rst > total,
\* 2 * most > total and size * len > 2 * sum written here.
DetectAnomalies(packets, st) ==
    LET rst   == RstPackets(packets)
        sizes == st.packet_sizes
        large == LargePackets(sizes)
    IN  (IF 10 * rst > st.total_packets
         THEN <<[kind |-> "HIGH_RESET_RATIO", metric |-> rst]>> ELSE <<>>)
     \o (IF DOMAIN st.ports # {} /\ 2 * MaxCount(st.ports) > st.total_packets
         THEN <<[kind |-> "CONCENTRATED_TRAFFIC", metric |-> MaxCount(st.ports)]>>
         ELSE <<>>)
     \o (IF sizes # <<>> /\ large > 0
         THEN <<[kind |-> "LARGE_PACKETS", metric |-> large]>> ELSE <<>>)

\* longest text of freely chosen lines, and the length of the longer
\* synthetic capture
MaxLines == 2
MaxBatch == 100

\* most lines of one kind in a synthetic capture
MaxRst == 16

\* most runs of generate_report on one engine
MaxRuns == 2

\* most calls of parse_tcpdump_output on one engine
MaxCalls == 2

\* most lines an engine has been fed when it is called again
MaxFed == 3

Repeat(x, n) == [k \in 1..n |-> x]

\* synthetic captures: a lines "Flags [R]", b lines "Flags [R.]", the rest
\* plain ACK segments
Batch(a, b, n) == Repeat(LnRst, a) \o Repeat(LnRstAck, b) \o Repeat(LnAck, n - a - b)

BatchOutputs ==
    {Batch(a, b, n) : a \in 0..MaxRst, b \in {0, 15}, n \in {50, MaxBatch}}

\* an ICMP datagram of 1448 bytes
LnIcmpBig == [LnIcmp EXCEPT !.length = 1448]

\* texts written out in full: one long datagram after short ones, without
\* ports, after a reset, and after two segments of one port
CannedOutputs ==
    { <<LnIcmp, LnIcmp, LnIcmpBig>>,
      <<LnRst, LnIcmp, LnIcmp, LnIcmpBig>>,
      <<LnSyn, LnSyn, LnAck>> }

POutputs ==
    UNION {[1..n -> LineChoices] : n \in 0..MaxLines}
    \cup BatchOutputs \cup CannedOutputs

----------------------------------------------------------------------------
(* DHCPAnalyzer: the records tshark -T json -e ... writes for a DHCP       *)
(* capture.                                                                *)

\* "aa:bb:cc:dd:ee:ff"
MacA == <<97, 97, 58, 98, 98, 58, 99, 99, 58, 100, 100, 58, 101, 101, 58, 102, 102>>

\* "aa:bb:cc:dd:ee:00"
MacB == <<97, 97, 58, 98, 98, 58, 99, 99, 58, 100, 100, 58, 101, 101, 58, 48, 48>>

\* "0.0.0.0"
ClientIp == <<48, 46, 48, 46, 48, 46, 48>>

\* "192.168.1.1"
ServerIp == <<49, 57, 50, 46, 49, 54, 56, 46, 49, 46, 49>>

\* "192.168.1.2"
ServerIp2 == <<49, 57, 50, 46, 49, 54, 56, 46, 49, 46, 50>>

\* "67"
Port67 == <<54, 55>>

\* "68"
Port68 == <<54, 56>>


\* frame.time as tshark prints it

\* "Jan 31, 2024 20:15:01.000000000 UTC"
Eve1 ==
    <<74, 97, 110, 32, 51, 49, 44, 32, 50, 48, 50, 52, 32, 50, 48, 58, 49, 53, 58, 48, 49, 46, 48, 48, 48, 48, 48, 48, 48, 48, 48, 32, 85, 84, 67>>

\* "Jan 31, 2024 20:15:01.250000000 UTC"
Eve2 ==
    <<74, 97, 110, 32, 51, 49, 44, 32, 50, 48, 50, 52, 32, 50, 48, 58, 49, 53, 58, 48, 49, 46, 50, 53, 48, 48, 48, 48, 48, 48, 48, 32, 85, 84, 67>>

\* "Jan 31, 2024 20:15:02.000000000 UTC"
Eve3 ==
    <<74, 97, 110, 32, 51, 49, 44, 32, 50, 48, 50, 52, 32, 50, 48, 58, 49, 53, 58, 48, 50, 46, 48, 48, 48, 48, 48, 48, 48, 48, 48, 32, 85, 84, 67>>

\* "Jan 31, 2024 20:15:02.500000000 UTC"
Eve4 ==
    <<74, 97, 110, 32, 51, 49, 44, 32, 50, 48, 50, 52, 32, 50, 48, 58, 49, 53, 58, 48, 50, 46, 53, 48, 48, 48, 48, 48, 48, 48, 48, 32, 85, 84, 67>>

\* "Jan 31, 2024 23:59:58.000000000 UTC"
Mid1 ==
    <<74, 97, 110, 32, 51, 49, 44, 32, 50, 48, 50, 52, 32, 50, 51, 58, 53, 57, 58, 53, 56, 46, 48, 48, 48, 48, 48, 48, 48, 48, 48, 32, 85, 84, 67>>

\* "Jan 31, 2024 23:59:59.000000000 UTC"
Mid2 ==
    <<74, 97, 110, 32, 51, 49, 44, 32, 50, 48, 50, 52, 32, 50, 51, 58, 53, 57, 58, 53, 57, 46, 48, 48, 48, 48, 48, 48, 48, 48, 48, 32, 85, 84, 67>>

\* "Feb  1, 2024 00:00:00.000000000 UTC"
Mid3 ==
    <<70, 101, 98, 32, 32, 49, 44, 32, 50, 48, 50, 52, 32, 48, 48, 58, 48, 48, 58, 48, 48, 46, 48, 48, 48, 48, 48, 48, 48, 48, 48, 32, 85, 84, 67>>

\* "Feb  1, 2024 00:00:01.000000000 UTC"
Mid4 ==
    <<70, 101, 98, 32, 32, 49, 44, 32, 50, 48, 50, 52, 32, 48, 48, 58, 48, 48, 58, 48, 49, 46, 48, 48, 48, 48, 48, 48, 48, 48, 48, 32, 85, 84, 67>>

\* longest record list a DHCP capture hands to analyze_dhcp_flow
MaxMessages == 4

\* one record of the capture: the fields of the -e list that are present
DRecord(num, mac, type, time, src, sport) ==
    [t |-> "obj",
     layers |-> ( "frame.number" :> L(num) @@ "frame.time" :> L(time) @@
                  "ip.src" :> L(src) @@ "udp.srcport" :> L(sport) @@
                  "dhcp.option.dhcp" :> L(type) @@
                  "dhcp.client_mac" :> L(mac) )]

\* a handshake of MacA at the four instants of a timeline, a DISCOVER and a
\* NAK of MacB, and a JSON value that is no object
DCandidates(tl) ==
    { DRecord(<<49>>, MacA, <<49>>, tl[1], ClientIp, Port68),
      DRecord(<<50>>, MacA, <<50>>, tl[2], ServerIp, Port67),
      DRecord(<<51>>, MacA, <<51>>, tl[3], ClientIp, Port68),
      DRecord(<<52>>, MacA, <<52>>, tl[4], ServerIp, Port67),
      DRecord(<<53>>, MacB, <<49>>, tl[2], ClientIp, Port68),
      DRecord(<<54>>, MacB, <<53>>, tl[3], ServerIp2, Port67),
      PktNum }

\* a handshake within one evening, and one that runs over midnight into
\* the next month
Timelines == { <<Eve1, Eve2, Eve3, Eve4>>, <<Mid1, Mid2, Mid3, Mid4>> }

\* "Jan 31, 2024 20:15:0d.000000000 UTC" for a digit d
EveAt(d) == [Eve1 EXCEPT ![21] = 48 + d]

\* frame number d, sent at EveAt(d): a client message, a server message
FromClient(d, mac, type) ==
    DRecord(<<48 + d>>, mac, type, EveAt(d), ClientIp, Port68)

FromServer(d, mac, type) ==
    DRecord(<<48 + d>>, mac, type, EveAt(d), ServerIp, Port67)

\* DISCOVER, OFFER, one more message of the given type, REQUEST, ACK of
\* MacA in the order of their timestamps
WithRetry(type) ==
    << FromClient(1, MacA, <<49>>), FromServer(2, MacA, <<50>>),
       FromServer(3, MacA, type),
       FromClient(4, MacA, <<51>>), FromServer(5, MacA, <<52>>) >>

\* the extra message is a DISCOVER, an OFFER, a REQUEST, an ACK or a NAK
RetryStreams == { WithRetry(<<48 + x>>) : x \in 1..5 }

\* MacA runs the handshake twice, one run after the other
TwoHandshakes ==
    << FromClient(1, MacA, <<49>>), FromServer(2, MacA, <<50>>),
       FromClient(3, MacA, <<51>>), FromServer(4, MacA, <<52>>),
       FromClient(5, MacA, <<49>>), FromServer(6, MacA, <<50>>),
       FromClient(7, MacA, <<51>>), FromServer(8, MacA, <<52>>) >>

\* MacA and MacB run one handshake each, message by message in turn
Interleaved ==
    << FromClient(1, MacA, <<49>>), FromClient(2, MacB, <<49>>),
       FromServer(3, MacA, <<50>>), FromServer(4, MacB, <<50>>),
       FromClient(5, MacA, <<51>>), FromClient(6, MacB, <<51>>),
       FromServer(7, MacA, <<52>>), FromServer(8, MacB, <<52>>) >>

\* the same eight messages, the capture file holding them last first
InterleavedReversed == [k \in 1..8 |-> Interleaved[9 - k]]

\* captures written out in full
DCannedCaptures ==
    RetryStreams \cup {TwoHandshakes, Interleaved, InterleavedReversed}

\* the records of a capture file: candidates, each at most once, in any
\* order, or a capture written out in full
DRecordLists ==
    UNION { { s \in [1..n -> DCandidates(tl)] :
                \A i \in 1..n : \A j \in 1..n : i # j => s[i] # s[j] } :
            n \in 0..MaxMessages, tl \in Timelines }
    \cup DCannedCaptures

----------------------------------------------------------------------------
(* DHCPAnalyzer.analyze_dhcp_flow                                          *)

\* the keys packet_info reads with layers.get(key, [''])[0]
DFieldKeys ==
    {"frame.number", "frame.time", "ip.src", "ip.dst", "udp.srcport",
     "udp.dstport", "dhcp.option.dhcp", "dhcp.client_mac",
     "dhcp.option.requested_ip", "dhcp.option.server_id",
     "dhcp.option.lease_time", "dhcp.option.subnet_mask",
     "dhcp.option.router", "dhcp.option.domain_name_server",
     "dhcp.option.domain_name", "dhcp.your_ip", "dhcp.client_ip",
     "dhcp.server_ip"}

NoType == [name |-> "", arg |-> <<>>]

\* dhcp_types.get(dhcp_type, f'UNKNOWN({dhcp_type})')
GetDhcpMessageType(dhcp_type) ==
    IF dhcp_type = <<49>> THEN [name |-> "DHCPDISCOVER", arg |-> <<>>]
    ELSE IF dhcp_type = <<50>> THEN [name |-> "DHCPOFFER", arg |-> <<>>]
    ELSE IF dhcp_type = <<51>> THEN [name |-> "DHCPREQUEST", arg |-> <<>>]
    ELSE IF dhcp_type = <<52>> THEN [name |-> "DHCPACK", arg |-> <<>>]
    ELSE IF dhcp_type = <<53>> THEN [name |-> "DHCPNAK", arg |-> <<>>]
    ELSE IF dhcp_type = <<54>> THEN [name |-> "DHCPDECLINE", arg |-> <<>>]
    ELSE IF dhcp_type = <<55>> THEN [name |-> "DHCPRELEASE", arg |-> <<>>]
    ELSE IF dhcp_type = <<56>> THEN [name |-> "DHCPINFORM", arg |-> <<>>]
    ELSE [name |-> "UNKNOWN", arg |-> dhcp_type]

\* the packet_info dict of one packet (the fields the analysis reads, and
\* message_type once it is set), or ok = FALSE when building it raises
DPacketInfo(packet) ==
    IF packet.t # "obj" THEN [ok |-> FALSE]
    ELSE
    LET layers == packet.layers
        get(k) == Get0(layers, k, EmptyStr)
    IN  IF \E k \in DFieldKeys : ~get(k).ok THEN [ok |-> FALSE]
        ELSE [ok |-> TRUE,
              frame_number |-> get("frame.number").v,
              timestamp |-> get("frame.time").v,
              src_ip |-> get("ip.src").v,
              src_port |-> get("udp.srcport").v,
              dhcp_type |-> get("dhcp.option.dhcp").v,
              client_mac |-> get("dhcp.client_mac").v,
              server_ip |-> get("dhcp.server_ip").v,
              message_type |->
                  IF get("dhcp.option.dhcp").v # <<>>
                  THEN GetDhcpMessageType(get("dhcp.option.dhcp").v)
                  ELSE NoType]

DNewAnalysis(packets) ==
    [total_packets |-> Len(packets),
     dhcp_messages |-> <<>>,
     dora_sequences |-> <<>>,
     clients |-> EmptyDict,
     servers |-> EmptyDict,
     issues |-> <<>>]

\* analysis['clients'][client_mac]['messages'].append(packet_info)
TrackClient(clients, info) ==
    IF info.client_mac = <<>> THEN clients
    ELSE IF info.client_mac \in DOMAIN clients
    THEN [clients EXCEPT ![info.client_mac].messages = Append(@, info)]
    ELSE clients @@ (info.client_mac :>
                       [mac |-> info.client_mac, messages |-> <<info>>,
                        assigned_ip |-> "None", server |-> "None"])

\* server_ip = packet_info['server_ip'] or packet_info['src_ip']
TrackServer(servers, info) ==
    LET server_ip == IF info.server_ip # <<>> THEN info.server_ip ELSE info.src_ip
        served == IF info.client_mac # <<>> THEN {info.client_mac} ELSE {}
    IN  IF ~(server_ip # <<>> /\ info.src_port = Port67) THEN servers
        ELSE IF server_ip \in DOMAIN servers
        THEN [servers EXCEPT ![server_ip].messages = Append(@, info),
                             ![server_ip].clients_served = @ \cup served]
        ELSE servers @@ (server_ip :>
                           [ip |-> server_ip, messages |-> <<info>>,
                            clients_served |-> served])

\* the body of "for packet in packets": a packet that raises is skipped
DAnalyzePacket(a, packet) ==
    LET info == DPacketInfo(packet) IN
    IF ~info.ok THEN a
    ELSE [a EXCEPT
            !.dhcp_messages = IF info.dhcp_type # <<>> THEN Append(@, info) ELSE @,
            !.clients = TrackClient(@, info),
            !.servers = TrackServer(@, info)]

----------------------------------------------------------------------------
(* DHCPAnalyzer._identify_dora_sequences                                   *)

\* the keys of client_messages in insertion order
RECURSIVE MacsInOrder(_, _)
MacsInOrder(messages, seen) ==
    IF messages = <<>> THEN seen
    ELSE LET mac == Head(messages).client_mac IN
         IF mac = <<>> \/ \E k \in 1..Len(seen) : seen[k] = mac
         THEN MacsInOrder(Tail(messages), seen)
         ELSE MacsInOrder(Tail(messages), Append(seen, mac))

\* one bucket for all clients: every message whatever its client_mac
MessagesOfAll(messages, mac) == messages

\* client_messages[mac]
MessagesOf(messages, mac) == SelectSeq(messages, LAMBDA m : m.client_mac = mac)

\* where list.sort places m among msgs already sorted: after every element
\* whose key is not greater (the sort is stable), comparing the timestamp
\* strings
InsertByTimestamp(sorted, m) ==
    LET later == {k \in 1..Len(sorted) : LexLess(m.timestamp, sorted[k].timestamp)}
        at == IF later = {} THEN Len(sorted) + 1
              ELSE CHOOSE k \in later : \A j \in later : k <= j
    IN  SubSeq(sorted, 1, at - 1) \o <<m>> \o SubSeq(sorted, at, Len(sorted))

\* msgs.sort(key=lambda x: x['timestamp'])
RECURSIVE SortByTimestamp(_)
SortByTimestamp(msgs) ==
    IF msgs = <<>> THEN <<>>
    ELSE InsertByTimestamp(SortByTimestamp(SubSeq(msgs, 1, Len(msgs) - 1)),
                           msgs[Len(msgs)])

DoraPattern == <<"DHCPDISCOVER", "DHCPOFFER", "DHCPREQUEST", "DHCPACK">>

InPattern(name) == \E k \in 1..4 : DoraPattern[k] = name

\* current_pattern: the types of sequence['messages'], appended together
TypesOf(msgs) == [k \in 1..Len(msgs) |-> msgs[k].message_type.name]

\* the loop without its break: it goes on appending after a complete tail
RECURSIVE MatchFromNoBreak(_, _)
MatchFromNoBreak(msgs, sequence) ==
    IF msgs = <<>> THEN sequence
    ELSE IF ~InPattern(Head(msgs).message_type.name)
    THEN MatchFromNoBreak(Tail(msgs), sequence)
    ELSE LET matched == Append(sequence.messages, Head(msgs))
             pattern == TypesOf(matched)
             n == Len(pattern)
         IN  IF n >= 4 /\ SubSeq(pattern, n - 3, n) = DoraPattern
             THEN MatchFromNoBreak(Tail(msgs),
                      [sequence EXCEPT !.messages = matched, !.complete = TRUE,
                                       !.duration = "Duration calculated"])
             ELSE MatchFromNoBreak(Tail(msgs), [sequence EXCEPT !.messages = matched])

\* "for msg in msgs" with its break
RECURSIVE MatchFrom(_, _)
MatchFrom(msgs, sequence) ==
    IF msgs = <<>> THEN sequence
    ELSE IF ~InPattern(Head(msgs).message_type.name)
    THEN MatchFrom(Tail(msgs), sequence)
    ELSE LET matched == Append(sequence.messages, Head(msgs))
             pattern == TypesOf(matched)
             n == Len(pattern)
         IN  IF n >= 4 /\ SubSeq(pattern, n - 3, n) = DoraPattern
             THEN [sequence EXCEPT !.messages = matched, !.complete = TRUE,
                                   !.duration = "Duration calculated"]
             ELSE MatchFrom(Tail(msgs), [sequence EXCEPT !.messages = matched])

SequenceOf(messages, mac) ==
    MatchFrom(SortByTimestamp(MessagesOf(messages, mac)),
              [client_mac |-> mac, messages |-> <<>>, complete |-> FALSE,
               duration |-> "None"])

IdentifyDoraSequences(messages) ==
    LET macs == MacsInOrder(messages, <<>>)
        all  == [k \in 1..Len(macs) |-> SequenceOf(messages, macs[k])]
    IN  SelectSeq(all, LAMBDA s : s.messages # <<>>)

CountNamed(messages, name) ==
    Cardinality({k \in 1..Len(messages) : messages[k].message_type.name = name})

\* _identify_dhcp_issues: one entry per check that fires, in this order
IdentifyDhcpIssues(a) ==
    LET incomplete == Cardinality({k \in 1..Len(a.dora_sequences) :
                                     ~a.dora_sequences[k].complete})
        naks == CountNamed(a.dhcp_messages, "DHCPNAK")
        declines == CountNamed(a.dhcp_messages, "DHCPDECLINE")
    IN  (IF incomplete > 0
         THEN <<[issue |-> "incomplete DORA sequences", n |-> incomplete]>>
         ELSE <<>>)
        \o (IF Cardinality(DOMAIN a.servers) > 1
            THEN <<[issue |-> "Multiple DHCP servers detected",
                    n |-> Cardinality(DOMAIN a.servers)]>>
            ELSE <<>>)
        \o (IF naks > 0 THEN <<[issue |-> "DHCP NAK messages", n |-> naks]>>
            ELSE <<>>)
        \o (IF declines > 0
            THEN <<[issue |-> "DHCP DECLINE messages", n |-> declines]>>
            ELSE <<>>)

----------------------------------------------------------------------------
(* The runs.                                                               *)

Init ==
    /\ w_pc = "start"
    /\ w_packets = <<>>
    /\ w_i = 0
    /\ w_analysis = NewAnalysis(<<>>)
    /\ w_warnings = 0
    /\ w_report = <<>>
    /\ w_records = <<>>
    /\ w_enc = "array"
    /\ t_pc = "start"
    /\ t_records = <<>>
    /\ t_enc = "array"
    /\ t_payload = <<>>
    /\ t_packets = <<>>
    /\ t_i = 0
    /\ t_analysis = TNewAnalysis(<<>>)
    /\ t_error = ""
    /\ t_report = <<>>
    /\ t_exit = -1
    /\ p_pc = "start"
    /\ p_packets = <<>>
    /\ p_stats = PNewStats
    /\ p_anomalies = <<>>
    /\ p_runs = 0
    /\ p_calls = 0
    /\ p_fed = <<>>
    /\ d_pc = "start"
    /\ d_packets = <<>>
    /\ d_i = 0
    /\ d_analysis = DNewAnalysis(<<>>)
    /\ d_report = <<>>

\* WiresharkAnalyzer.run_analysis up to "if not packets": the capture tool
\* writes its records in one of the two encodings, capture_packets parses
\* the text, an empty result ends the run
WCapture ==
    /\ w_pc = "start"
    /\ \E rs \in PacketLists : \E enc \in {"array", "ndjson"} :
        LET ps == WParseCapture(Encode(enc, rs)) IN
        /\ w_records' = rs
        /\ w_enc' = enc
        /\ w_packets' = ps
        /\ IF ps = <<>>
           THEN w_pc' = "failed" /\ UNCHANGED w_analysis
           ELSE w_pc' = "loop" /\ w_analysis' = NewAnalysis(ps)
    /\ UNCHANGED <<w_i, w_warnings, w_report, tvars, pvars, dvars>>

\* one iteration of "for packet in packets"
WAnalyzeStep ==
    /\ w_pc = "loop"
    /\ w_i < Len(w_packets)
    /\ w_i' = w_i + 1
    /\ w_analysis' = AnalyzePacket(w_analysis, w_packets[w_i + 1])
    /\ w_warnings' = IF PacketInfo(w_packets[w_i + 1]).ok
                     THEN w_warnings ELSE w_warnings + 1
    /\ UNCHANGED <<w_pc, w_packets, w_report, w_records, w_enc, tvars, pvars, dvars>>

\* return analysis
WAnalyzeReturn ==
    /\ w_pc = "loop"
    /\ w_i = Len(w_packets)
    /\ w_pc' = "analyzed"
    /\ UNCHANGED <<w_packets, w_i, w_analysis, w_warnings, w_report, w_records,
                   w_enc, tvars, pvars, dvars>>

\* json.dump(analysis, f, indent=2, default=str) writes the document entry
\* by entry; a dict key that is a tuple raises TypeError (default= serves
\* values, not keys), which leaves the entries before "conversations"
JsonDump(analysis) ==
    IF DOMAIN analysis.conversations = {}
    THEN [ok |-> TRUE, doc |-> analysis]
    ELSE [ok |-> FALSE,
          doc |-> [total_packets |-> analysis.total_packets,
                   total_bytes |-> analysis.total_bytes,
                   protocols |-> analysis.protocols,
                   endpoints |-> analysis.endpoints]]

\* generate_report; run_analysis catches nothing, so a TypeError ends the
\* run with a traceback
WGenerateReport ==
    /\ w_pc = "analyzed"
    /\ w_report' = JsonDump(w_analysis).doc
    /\ w_pc' = IF JsonDump(w_analysis).ok THEN "done" ELSE "crashed"
    /\ UNCHANGED <<w_packets, w_i, w_analysis, w_warnings, w_records, w_enc, tvars, pvars, dvars>>

NextW == WCapture \/ WAnalyzeStep \/ WAnalyzeReturn \/ WGenerateReport

SpecW == Init /\ [][NextW]_vars

\* TsharkAnalyzer.run_file_analysis: the subprocess has ended with
\* returncode 0 and result.stdout holds its records
TCapture ==
    /\ t_pc = "start"
    /\ \E rs \in TRecordLists : \E enc \in Encodings :
        /\ t_records' = rs
        /\ t_enc' = enc
        /\ t_payload' = Encode(enc, rs)
    /\ t_pc' = "parse"
    /\ UNCHANGED <<t_exit, t_packets, t_i, t_analysis, t_error, t_report, wvars, pvars, dvars>>

\* analyze_packets up to its loop
TParse ==
    /\ t_pc = "parse"
    /\ IF Strip(t_payload) = <<>>
       THEN /\ t_error' = "No packet data to analyze"
            /\ t_pc' = "analyzed"
            /\ UNCHANGED <<t_exit, t_packets, t_analysis>>
       ELSE /\ t_packets' = TParsePackets(t_payload)
            /\ t_analysis' = TNewAnalysis(TParsePackets(t_payload))
            /\ t_pc' = "loop"
            /\ UNCHANGED t_error
    /\ UNCHANGED <<t_exit, t_records, t_enc, t_payload, t_i, t_report, wvars, pvars, dvars>>

\* self._analyze_packet(packet, analysis) for the next packet
TAnalyzeStep ==
    /\ t_pc = "loop"
    /\ t_i < Len(t_packets)
    /\ t_i' = t_i + 1
    /\ t_analysis' = TAnalyzePacket(t_analysis, t_packets[t_i + 1])
    /\ UNCHANGED <<t_exit, t_pc, t_records, t_enc, t_payload, t_packets, t_error, t_report,
                   wvars, pvars, dvars>>

\* return analysis
TAnalyzeReturn ==
    /\ t_pc = "loop"
    /\ t_i = Len(t_packets)
    /\ t_pc' = "analyzed"
    /\ UNCHANGED <<t_exit, t_records, t_enc, t_payload, t_packets, t_i, t_analysis, t_error,
                   t_report, wvars, pvars, dvars>>

\* generate_statistics, print_analysis, save_results; an analysis that is
\* only {"error": ...} is read through .get defaults
TSaveResults ==
    /\ t_pc = "analyzed"
    /\ t_report' = IF t_error # ""
                   THEN [error |-> t_error, packet_count |-> 0, total_bytes |-> 0,
                         sized |-> 0, top_hosts |-> <<>>, errors |-> 0]
                   ELSE [error |-> "", packet_count |-> TStatistics(t_analysis).packet_count,
                         total_bytes |-> TStatistics(t_analysis).total_bytes,
                         sized |-> TStatistics(t_analysis).sized,
                         top_hosts |-> TStatistics(t_analysis).top_hosts,
                         errors |-> Len(t_analysis.errors)]
    /\ t_pc' = "done"
    /\ UNCHANGED <<t_exit, t_records, t_enc, t_payload, t_packets, t_i, t_analysis, t_error,
                   wvars, pvars, dvars>>

\* run_file_analysis when the file is missing, tshark ends with a non-zero
\* returncode or times out: a message, return False
TCaptureFails ==
    /\ t_pc = "start"
    /\ t_error' = "Failed to read pcap file"
    /\ t_pc' = "failed"
    /\ UNCHANGED <<t_exit, t_records, t_enc, t_payload, t_packets, t_i, t_analysis,
                   t_report, wvars, pvars, dvars>>

\* main: sys.exit(0 if success else 1); run_file_analysis returns True
\* once save_results has returned
TMainExit ==
    /\ t_pc \in {"done", "failed"}
    /\ t_exit' = IF t_pc = "done" THEN 0 ELSE 1
    /\ t_pc' = "exited"
    /\ UNCHANGED <<t_records, t_enc, t_payload, t_packets, t_i, t_analysis,
                   t_error, t_report, wvars, pvars, dvars>>

NextT ==
    \/ TCapture \/ TCaptureFails \/ TParse \/ TAnalyzeStep \/ TAnalyzeReturn
    \/ TSaveResults \/ TMainExit

SpecT == Init /\ [][NextT]_vars

\* the texts a call of parse_tcpdump_output gets: any text for the first
\* call, and for a later call a text of at most one line that keeps the
\* lines fed to the engine within MaxFed
OutputsOfCall(n) ==
    IF n = 0 THEN POutputs
    ELSE {out \in POutputs : Len(out) <= 1 /\ Len(p_fed) + Len(out) <= MaxFed}

\* a parse_tcpdump_output that starts from empty counters at every call
ParseOutputFresh ==
    /\ p_pc \in {"start", "parsed"}
    /\ p_calls < MaxCalls
    /\ \E out \in OutputsOfCall(p_calls) :
        LET e == ParseLinesInto([packets |-> <<>>, stats |-> PNewStats], out)
        IN  p_packets' = e.packets /\ p_stats' = e.stats /\ p_fed' = p_fed \o out
    /\ p_calls' = p_calls + 1
    /\ p_pc' = "parsed"
    /\ UNCHANGED <<p_anomalies, p_runs, wvars, tvars, dvars>>

\* parse_tcpdump_output(output), called by analyze_file or capture_packets
\* and open to further calls on the same engine
PParseOutput ==
    /\ p_pc \in {"start", "parsed"}
    /\ p_calls < MaxCalls
    /\ \E out \in OutputsOfCall(p_calls) :
        LET e == ParseLinesInto([packets |-> p_packets, stats |-> p_stats], out)
        IN  p_packets' = e.packets /\ p_stats' = e.stats /\ p_fed' = p_fed \o out
    /\ p_calls' = p_calls + 1
    /\ p_pc' = "parsed"
    /\ UNCHANGED <<p_anomalies, p_runs, wvars, tvars, dvars>>

\* a generate_report whose detector empties the size list it has read
GenerateReportDraining ==
    /\ p_pc \in {"parsed", "reported"}
    /\ p_runs < MaxRuns
    /\ p_anomalies' = DetectAnomalies(p_packets, p_stats)
    /\ p_stats' = [p_stats EXCEPT !.packet_sizes = <<>>]
    /\ p_runs' = p_runs + 1
    /\ p_pc' = "reported"
    /\ UNCHANGED <<p_packets, p_calls, p_fed, wvars, tvars, dvars>>

\* generate_report: anomalies = self.detect_anomalies().  main prints the
\* report, and save_report generates it once more
PGenerateReport ==
    /\ p_pc \in {"parsed", "reported"}
    /\ p_runs < MaxRuns
    /\ p_anomalies' = DetectAnomalies(p_packets, p_stats)
    /\ p_runs' = p_runs + 1
    /\ p_pc' = "reported"
    /\ UNCHANGED <<p_packets, p_stats, p_calls, p_fed, wvars, tvars, dvars>>

NextP == PParseOutput \/ PGenerateReport

SpecP == Init /\ [][NextP]_vars

\* DHCPAnalyzer.run_analysis up to "if not packets"
DCapture ==
    /\ d_pc = "start"
    /\ \E ps \in DRecordLists :
        /\ d_packets' = ps
        /\ IF ps = <<>>
           THEN d_pc' = "failed" /\ UNCHANGED d_analysis
           ELSE d_pc' = "loop" /\ d_analysis' = DNewAnalysis(ps)
    /\ UNCHANGED <<d_i, d_report, wvars, tvars, pvars>>

\* one iteration of "for packet in packets"
DAnalyzeStep ==
    /\ d_pc = "loop"
    /\ d_i < Len(d_packets)
    /\ d_i' = d_i + 1
    /\ d_analysis' = DAnalyzePacket(d_analysis, d_packets[d_i + 1])
    /\ UNCHANGED <<d_pc, d_packets, d_report, wvars, tvars, pvars>>

\* the end of analyze_dhcp_flow: sequences, then issues
DAnalyzeReturn ==
    /\ d_pc = "loop"
    /\ d_i = Len(d_packets)
    /\ LET a == [d_analysis EXCEPT
                   !.dora_sequences = IdentifyDoraSequences(d_analysis.dhcp_messages)]
       IN  d_analysis' = [a EXCEPT !.issues = IdentifyDhcpIssues(a)]
    /\ d_pc' = "analyzed"
    /\ UNCHANGED <<d_packets, d_i, d_report, wvars, tvars, pvars>>

\* generate_report: json.dump(analysis, f, indent=2, default=str)
DGenerateReport ==
    /\ d_pc = "analyzed"
    /\ d_report' = d_analysis
    /\ d_pc' = "done"
    /\ UNCHANGED <<d_packets, d_i, d_analysis, wvars, tvars, pvars>>

NextD == DCapture \/ DAnalyzeStep \/ DAnalyzeReturn \/ DGenerateReport

SpecD == Init /\ [][NextD]_vars

----------------------------------------------------------------------------
(* What the wireshark run has taken in so far.                             *)

\* the packet did not raise inside the try block
Ingested(p) == PacketInfo(p).ok

\* indices of the packets the loop has visited and aggregated
WIngestedIdx == {i \in 1..w_i : Ingested(w_packets[i])}

WInfo(i) == PacketInfo(w_packets[i])

WFinished == w_pc \in {"analyzed", "done", "crashed"}

RECURSIVE SumLengths(_, _)
SumLengths(ps, idx) ==
    IF idx = {} THEN 0
    ELSE LET i == CHOOSE x \in idx : TRUE
         IN  PacketInfo(ps[i]).length + SumLengths(ps, idx \ {i})

HasSrc(i) == WInfo(i).src_ip # <<>>
HasDst(i) == WInfo(i).dst_ip # <<>>

\* the non-empty segments of a record's protocol-stack field
RECURSIVE NonEmptySegments(_)
NonEmptySegments(protos) ==
    IF protos = <<>> THEN <<>>
    ELSE IF Head(protos) # <<>>
         THEN <<Head(protos)>> \o NonEmptySegments(Tail(protos))
         ELSE NonEmptySegments(Tail(protos))

StackOf(i) == NonEmptySegments(ProtocolList(WInfo(i)))

Hosts == {HostA, HostB, HostC}

ConvCount(k) ==
    IF k \in DOMAIN w_analysis.conversations THEN w_analysis.conversations[k] ELSE 0

\* C1: conversation keying is commutative.  Every conversation key is the
\* lexicographically sorted pair, no state holds both (A,B) and (B,A), and
\* the entry of the sorted pair counts the records between A and B of both
\* directions.
C1_ConversationKeyCommutative ==
    /\ \A k \in DOMAIN w_analysis.conversations :
          /\ ~LexLess(k[2], k[1])
          /\ (k[1] # k[2] => <<k[2], k[1]>> \notin DOMAIN w_analysis.conversations)
    /\ \A a \in Hosts : \A b \in Hosts :
          ConvCount(SortedPair(a, b)) =
             Cardinality({i \in WIngestedIdx :
                            \/ WInfo(i).src_ip = a /\ WInfo(i).dst_ip = b
                            \/ WInfo(i).src_ip = b /\ WInfo(i).dst_ip = a})

\* a record A -> B and a record B -> A were both aggregated into one entry
C1_Witness ==
    /\ \E i \in WIngestedIdx : w_packets[i] = PktTcpAB
    /\ \E j \in WIngestedIdx : w_packets[j] = PktTcpBA
    /\ ConvCount(<<HostA, HostB>>) = 2
    /\ DOMAIN w_analysis.conversations = {<<HostA, HostB>>}

\* C2: after the run total_bytes is the sum of the lengths of the records
\* that were ingested, and total_packets counts exactly those records.
C2_BytesAndPacketsAgree ==
    WFinished =>
        /\ w_analysis.total_bytes = SumLengths(w_packets, WIngestedIdx)
        /\ w_analysis.total_packets = Cardinality(WIngestedIdx)

\* C3: the endpoint counts add up to twice the records with both addresses
\* plus the records with exactly one; src = dst counts twice on one endpoint.
C3_EndpointCountSum ==
    /\ SumValues(w_analysis.endpoints) =
          2 * Cardinality({i \in WIngestedIdx : HasSrc(i) /\ HasDst(i)})
          + Cardinality({i \in WIngestedIdx : HasSrc(i) # HasDst(i)})
    /\ (w_i = 1 /\ w_packets[1] = PktDnsAA => w_analysis.endpoints[HostA] = 2)

\* a loopback record and a record with only a source have been aggregated
C3_Witness ==
    /\ \E i \in WIngestedIdx : w_packets[i] = PktDnsAA
    /\ \E i \in WIngestedIdx : w_packets[i] = PktSrcOnly
    /\ SumValues(w_analysis.endpoints) = 3

Roots(h) == {p \in DOMAIN h : Len(p) = 1}

Children(h, p) ==
    {q \in DOMAIN h : Len(q) = Len(p) + 1 /\ SubSeq(q, 1, Len(p)) = p}

\* C4: the counts of the top-level hierarchy nodes add up to the number of
\* ingested records whose protocol stack is not empty.
C4_RootCount ==
    SumOver(w_analysis.protocol_hierarchy, Roots(w_analysis.protocol_hierarchy)) =
        Cardinality({i \in WIngestedIdx : StackOf(i) # <<>>})

\* records with a stack, one with the all-empty stack ":" and one without
\* the field have been aggregated
C4_Witness ==
    /\ \E i \in WIngestedIdx : w_packets[i] = PktSrcOnly
    /\ \E i \in WIngestedIdx : w_packets[i] = PktNoProto
    /\ \E i \in WIngestedIdx : w_packets[i] = PktTcpAB
    /\ SumOver(w_analysis.protocol_hierarchy,
               Roots(w_analysis.protocol_hierarchy)) = 1

\* C5: the counts of a node's children never add up to more than the node's
\* own count.
C5_ChildrenBelowParent ==
    \A p \in DOMAIN w_analysis.protocol_hierarchy :
        SumOver(w_analysis.protocol_hierarchy,
                Children(w_analysis.protocol_hierarchy, p))
           <= w_analysis.protocol_hierarchy[p]

\* "eth", "ip"
NameEth == <<101, 116, 104>>
NameIp  == <<105, 112>>

\* the node eth/ip has two children and a count above their sum
C5_Witness ==
    /\ <<NameEth, NameIp>> \in DOMAIN w_analysis.protocol_hierarchy
    /\ Cardinality(Children(w_analysis.protocol_hierarchy, <<NameEth, NameIp>>)) = 2
    /\ w_analysis.protocol_hierarchy[<<NameEth, NameIp>>] = 3

\* analyze_packets as a function of the list
RECURSIVE AnalyzeFrom(_, _)
AnalyzeFrom(a, ps) ==
    IF ps = <<>> THEN a ELSE AnalyzeFrom(AnalyzePacket(a, Head(ps)), Tail(ps))

AnalyzeAll(ps) == AnalyzeFrom(NewAnalysis(ps), ps)

\* C8: a malformed record changes no aggregate: the result is the one of
\* the run over the same list without the malformed records.
C8_MalformedChangesNothing ==
    WFinished => w_analysis = AnalyzeAll(SelectSeq(w_packets, Ingested))

\* the integer entries of the report document
ReportNumbers(r) == {r.total_packets, r.total_bytes}

\* C9: a run that skipped k >= 1 records and ingested at least one ends
\* with a report that states k.
C9_ReportStatesSkipped ==
    (w_pc \in {"done", "crashed"} /\ w_warnings >= 1 /\ WIngestedIdx # {}) =>
        /\ w_pc = "done"
        /\ w_warnings \in ReportNumbers(w_report)

----------------------------------------------------------------------------
(* The tcpdump run.                                                        *)

\* the segment carries the RST flag: an R between the brackets, alone or
\* with others as in "Flags [R.]"
CarriesRst(line) == line.marker = "Flags" /\ Contains(line.flags, 82)

RecordsWithRst ==
    Cardinality({k \in 1..Len(p_packets) : CarriesRst(p_packets[k].raw_line)})

Findings(kind) ==
    Cardinality({k \in 1..Len(p_anomalies) : p_anomalies[k].kind = kind})

\* C7: the reset-ratio rule emits exactly one HIGH_RESET_RATIO finding when
\* records_with_RST / total_records is strictly above 0.10, and none
\* otherwise.
C7_ResetRatioRule ==
    p_pc = "reported" =>
        Findings("HIGH_RESET_RATIO") =
            (IF 10 * RecordsWithRst > p_stats.total_packets THEN 1 ELSE 0)

\* the rule on captures whose resets are all written "Flags [R]": 15 of
\* 100 give one finding, 5 and 10 of 100 give none
ResetRuleOnPlainResets ==
    (p_pc = "reported" /\ \A k \in 1..Len(p_packets) :
                             p_packets[k].raw_line.flags # <<82, 46>>) =>
        /\ Findings("HIGH_RESET_RATIO") =
              (IF 10 * RecordsWithRst > p_stats.total_packets THEN 1 ELSE 0)
        /\ (p_stats.total_packets = 100 /\ RecordsWithRst = 15
               => Findings("HIGH_RESET_RATIO") = 1)
        /\ (p_stats.total_packets = 100 /\ RecordsWithRst \in {5, 10}
               => Findings("HIGH_RESET_RATIO") = 0)

\* C10: the array encoding and the newline-delimited encoding of the same
\* records give the same record list, in order.
C10_EncodingTransparent ==
    w_pc # "start" => w_packets = w_records

\* the tshark engine on the same two encodings, and on newline-delimited
\* text with a line of junk, when the capture holds at least one record
TsharkEncodingTransparent ==
    (t_pc \notin {"start", "parse"} /\ t_records # <<>>) =>
        t_error = "" /\ t_packets = t_records

----------------------------------------------------------------------------
(* The DHCP run.                                                           *)

MonthNames ==
    <<<<74, 97, 110>>,
      <<70, 101, 98>>,
      <<77, 97, 114>>,
      <<65, 112, 114>>,
      <<77, 97, 121>>,
      <<74, 117, 110>>,
      <<74, 117, 108>>,
      <<65, 117, 103>>,
      <<83, 101, 112>>,
      <<79, 99, 116>>,
      <<78, 111, 118>>,
      <<68, 101, 99>>>>

MonthOf(name) ==
    IF \E k \in 1..12 : MonthNames[k] = name
    THEN CHOOSE k \in 1..12 : MonthNames[k] = name
    ELSE 0

\* the instant a frame.time string "Mon DD, YYYY HH:MM:SS.nnnnnnnnn UTC"
\* names, as <<year, month, day, hour, minute, second, nanosecond>>; a
\* one-digit day is padded with a blank
InstantOf(ts) ==
    LET num(a, b) == ParseInt(SelectSeq(SubSeq(ts, a, b), LAMBDA c : c # 32))
        parts == <<num(9, 12), num(5, 6), num(14, 15), num(17, 18),
                   num(20, 21), num(23, 31)>>
    IN  IF Len(ts) >= 31 /\ MonthOf(SubSeq(ts, 1, 3)) # 0
           /\ \A k \in 1..6 : parts[k].ok
        THEN [ok |-> TRUE,
              v |-> <<parts[1].v, MonthOf(SubSeq(ts, 1, 3)), parts[2].v,
                      parts[3].v, parts[4].v, parts[5].v, parts[6].v>>]
        ELSE [ok |-> FALSE, v |-> <<>>]

\* a is a valid timestamp, and so is b, and a is the earlier instant
Earlier(a, b) ==
    InstantOf(a).ok /\ InstantOf(b).ok /\ LexLess(InstantOf(a).v, InstantOf(b).v)

DFinished == d_pc \in {"analyzed", "done"}

\* the records of the capture that analyze_dhcp_flow took in for a peer
DRecordsOf(mac) ==
    SelectSeq([k \in 1..Len(d_packets) |-> DPacketInfo(d_packets[k])],
              LAMBDA info : info.ok /\ info.client_mac = mac)

\* the peer's records are one DISCOVER, one OFFER, one REQUEST and one ACK,
\* their timestamps increasing in that order
OneHandshake(mac) ==
    LET rs == DRecordsOf(mac)
        at(name) == CHOOSE k \in 1..Len(rs) : rs[k].message_type.name = name
    IN  /\ Len(rs) = 4
        /\ \A j \in 1..4 : \E k \in 1..4 : rs[k].message_type.name = DoraPattern[j]
        /\ \A j \in 1..3 : Earlier(rs[at(DoraPattern[j])].timestamp,
                                   rs[at(DoraPattern[j + 1])].timestamp)

SequencesOf(mac) ==
    {k \in 1..Len(d_analysis.dora_sequences) :
        d_analysis.dora_sequences[k].client_mac = mac}

\* C6: a peer whose records are exactly one DISCOVER, one OFFER, one REQUEST
\* and one ACK, with valid timestamps increasing in that order, gets exactly
\* one sequence, complete and with four matched types, whatever the order
\* in which the four records arrived.
C6_DoraAnyArrivalOrder ==
    DFinished =>
        \A mac \in {MacA, MacB} :
            OneHandshake(mac) =>
                /\ Cardinality(SequencesOf(mac)) = 1
                /\ \A k \in SequencesOf(mac) :
                      /\ d_analysis.dora_sequences[k].complete
                      /\ Len(d_analysis.dora_sequences[k].messages) = 4

\* the same for the handshakes whose timestamp strings compare as their
\* instants do
DoraWithinOneDay ==
    DFinished =>
        \A mac \in {MacA, MacB} :
            (OneHandshake(mac) /\ \A k \in 1..Len(DRecordsOf(mac)) :
                                    SubSeq(DRecordsOf(mac)[k].timestamp, 1, 12)
                                        = SubSeq(Eve1, 1, 12)) =>
                /\ Cardinality(SequencesOf(mac)) = 1
                /\ \A k \in SequencesOf(mac) :
                      /\ d_analysis.dora_sequences[k].complete
                      /\ TypesOf(d_analysis.dora_sequences[k].messages) = DoraPattern

\* a handshake within one day has been analysed after arriving out of order
DoraWithinOneDayReached ==
    /\ DFinished
    /\ OneHandshake(MacA)
    /\ DRecordsOf(MacA)[1].timestamp = Eve4
    /\ DRecordsOf(MacA)[4].timestamp = Eve1

----------------------------------------------------------------------------
(* Field values of the wireshark run: bare strings and lists.              *)

\* the record with every bare string s written as the list [s]
AsLists(packet) ==
    [packet EXCEPT !.layers =
        [k \in DOMAIN packet.layers |->
            IF packet.layers[k].t = "str" THEN L(packet.layers[k].v)
            ELSE packet.layers[k]]]

\* C11: a field given as the bare string s and the same field given as the
\* list [s] give the same packet_info, none of the two raising or cutting
\* the value short, and a field that is missing reads as the empty string.
C11_BareStringAsList ==
    \A i \in 1..w_i :
        w_packets[i].t = "obj" =>
            /\ PacketInfo(w_packets[i]) = PacketInfo(AsLists(w_packets[i]))
            /\ (PacketInfo(w_packets[i]).ok =>
                  /\ ("ip.src" \notin DOMAIN w_packets[i].layers
                         => PacketInfo(w_packets[i]).src_ip = EmptyStr)
                  /\ ("ip.dst" \notin DOMAIN w_packets[i].layers
                         => PacketInfo(w_packets[i]).dst_ip = EmptyStr)
                  /\ ("frame.protocols" \notin DOMAIN w_packets[i].layers
                         => PacketInfo(w_packets[i]).protocols = EmptyStr))

\* on records whose fields are all lists a missing field reads as ""
MissingFieldIsEmpty ==
    \A i \in WIngestedIdx :
        /\ ("ip.dst" \notin DOMAIN w_packets[i].layers => WInfo(i).dst_ip = EmptyStr)
        /\ ("frame.protocols" \notin DOMAIN w_packets[i].layers
               => WInfo(i).protocols = EmptyStr)

----------------------------------------------------------------------------
(* The report document of the wireshark run.                               *)

\* the key "A|B" of the conversation of the sorted pair <<A, B>>
PipeKey(k) == k[1] \o <<124>> \o k[2]

WEnded == w_pc \in {"done", "crashed"}

\* C12: writing the report succeeds in every aggregate state, also with
\* conversation entries, and the document read back holds the same totals
\* and the same protocol, endpoint and conversation counts, a conversation
\* under its key "A|B".
C12_ReportRoundTrip ==
    WEnded =>
        /\ w_pc = "done"
        /\ w_report.total_packets = w_analysis.total_packets
        /\ w_report.total_bytes = w_analysis.total_bytes
        /\ w_report.protocols = w_analysis.protocols
        /\ w_report.endpoints = w_analysis.endpoints
        /\ \A k \in DOMAIN w_analysis.conversations :
              /\ PipeKey(k) \in DOMAIN w_report.conversations
              /\ w_report.conversations[PipeKey(k)] = w_analysis.conversations[k]

\* a run without conversation entries writes the whole document
ReportWithoutConversations ==
    (WEnded /\ DOMAIN w_analysis.conversations = {}) =>
        w_pc = "done" /\ w_report = w_analysis

----------------------------------------------------------------------------
(* The top listings of the tshark run.                                     *)

TDone == t_pc \in {"done", "exited"} /\ t_error = ""

\* C13: a top listing is in descending order of count, keys of equal count
\* in lexicographic order, so that the listing depends on the counts only
\* and not on the order the records arrived in.
C13_TopListingOrder ==
    TDone =>
        \A i \in 1..Len(t_report.top_hosts) : \A j \in 1..Len(t_report.top_hosts) :
            i < j =>
                \/ t_analysis.hosts[t_report.top_hosts[i]]
                      > t_analysis.hosts[t_report.top_hosts[j]]
                \/ /\ t_analysis.hosts[t_report.top_hosts[i]]
                         = t_analysis.hosts[t_report.top_hosts[j]]
                   /\ LexLess(t_report.top_hosts[i], t_report.top_hosts[j])

\* the listing holds every host once and no count rises along it
TopListingDescending ==
    TDone =>
        /\ Len(t_report.top_hosts) = Cardinality(DOMAIN t_analysis.hosts)
        /\ {t_report.top_hosts[i] : i \in 1..Len(t_report.top_hosts)}
              = DOMAIN t_analysis.hosts
        /\ \A i \in 1..Len(t_report.top_hosts) : \A j \in 1..Len(t_report.top_hosts) :
              i < j => t_analysis.hosts[t_report.top_hosts[i]]
                          >= t_analysis.hosts[t_report.top_hosts[j]]

----------------------------------------------------------------------------
(* The exit code of the tshark run.                                        *)

\* the capture source gave no record at all: tshark failed, the payload
\* was empty, or nothing in it could be parsed
TNoRecordAtAll == t_error # "" \/ t_packets = <<>>

\* C14: the tool exits with 0 when the analysis succeeded, matched
\* sequences or not, and with a non-zero code whenever the capture source
\* gave no parseable record at all.
C14_ExitCode ==
    t_pc = "exited" => (t_exit # 0 <=> TNoRecordAtAll)

\* a run that analysed at least one record exits with 0, and a run whose
\* tshark call failed exits with 1
ExitCodeOfMain ==
    t_pc = "exited" =>
        /\ (t_packets # <<>> => t_exit = 0)
        /\ (t_error = "Failed to read pcap file" => t_exit = 1)

----------------------------------------------------------------------------
(* The six-record capture end to end.                                      *)

\* the unordered endpoint pairs of the records read so far that carry both
\* endpoints
EndpointPairs ==
    {{WInfo(i).src_ip, WInfo(i).dst_ip} :
        i \in {j \in WIngestedIdx :
                  WInfo(j).src_ip # <<>> /\ WInfo(j).dst_ip # <<>>}}

\* every conversation key stands for one endpoint pair and every endpoint
\* pair has one key
ConversationsMatchPairs ==
    /\ \A k \in DOMAIN w_analysis.conversations : {k[1], k[2]} \in EndpointPairs
    /\ \A e \in EndpointPairs :
          Cardinality({k \in DOMAIN w_analysis.conversations :
                          {k[1], k[2]} = e}) = 1

\* C15: two DNS, two HTTP and two TCP-with-RST records give
\* total_packets = 6 and protocols = {dns: 2, http: 2, tcp: 2}, and the
\* conversation entries stand one to one for the distinct unordered endpoint
\* pairs of the records that carry both endpoints.
C15_SixRecordsEndToEnd ==
    /\ ConversationsMatchPairs
    /\ (WFinished /\ w_packets = SixRecords) =>
          /\ w_analysis.total_packets = 6
          /\ DOMAIN w_analysis.protocols = {NameDns, NameHttp, NameTcp}
          /\ \A n \in {NameDns, NameHttp, NameTcp} : w_analysis.protocols[n] = 2

\* what the six records do give: the totals, the dns and http counts, one
\* count per layer of every stack, and two conversations
SixRecordsTotals ==
    (WFinished /\ w_packets = SixRecords) =>
        /\ w_analysis.total_packets = 6
        /\ w_analysis.total_bytes = 360
        /\ w_analysis.protocols[NameDns] = 2
        /\ w_analysis.protocols[NameHttp] = 2
        /\ w_analysis.protocols[NameTcp] = 4
        /\ DOMAIN w_analysis.protocols =
              {NameDns, NameHttp, NameTcp, <<101, 116, 104>>, <<105, 112>>,
               <<117, 100, 112>>}
        /\ Cardinality(DOMAIN w_analysis.conversations) = 2

----------------------------------------------------------------------------
(* Retries and duplicates within a handshake.                              *)

\* the step of the pattern a peer has reached after the given types, a
\* type other than the one awaited leaving the step as it is
RECURSIVE StepAfter(_, _)
StepAfter(types, step) ==
    IF types = <<>> \/ step = 4 THEN step
    ELSE StepAfter(Tail(types),
                   IF Head(types) = DoraPattern[step + 1] THEN step + 1 ELSE step)

\* every record of the peer was sent on the evening of Jan 31
WithinEvening(mac) ==
    \A k \in 1..Len(DRecordsOf(mac)) :
        SubSeq(DRecordsOf(mac)[k].timestamp, 1, 12) = SubSeq(Eve1, 1, 12)

\* the types of the peer's messages in the order of their timestamps
TimedTypes(mac) ==
    TypesOf(SortByTimestamp(
        SelectSeq(DRecordsOf(mac), LAMBDA m : m.dhcp_type # <<>>)))

HasCompleteSequence(mac) ==
    \E k \in SequencesOf(mac) : d_analysis.dora_sequences[k].complete

\* C16: a message that is not of the type awaited at the peer's step, a
\* retry or duplicate or any other type, leaves the step unchanged, so a
\* peer whose timestamp-ordered messages walk through DISCOVER, OFFER,
\* REQUEST, ACK with such messages in between (DISCOVER, OFFER, OFFER,
\* REQUEST, ACK) ends complete.
C16_RetryKeepsProgress ==
    DFinished =>
        \A mac \in {MacA, MacB} :
            (WithinEvening(mac) /\ StepAfter(TimedTypes(mac), 0) = 4) =>
                HasCompleteSequence(mac)

\* a message of a type outside the pattern between OFFER and REQUEST is
\* passed over: the handshake is complete with its four messages
OutOfPatternTypeSkipped ==
    (DFinished /\ d_packets = WithRetry(<<53>>)) =>
        /\ HasCompleteSequence(MacA)
        /\ \A k \in SequencesOf(MacA) :
              TypesOf(d_analysis.dora_sequences[k].messages) = DoraPattern

----------------------------------------------------------------------------
(* Repeated handshakes of one peer.                                        *)

\* the pattern k times over
RECURSIVE Repeated(_)
Repeated(k) == IF k = 0 THEN <<>> ELSE DoraPattern \o Repeated(k - 1)

CompleteSequencesOf(mac) ==
    {k \in SequencesOf(mac) : d_analysis.dora_sequences[k].complete}

\* C17: a completed sequence is frozen and later matching messages of the
\* peer open a new one, so a peer whose timestamp-ordered messages are the
\* handshake k times over is reported with k completed sequences.
C17_EachHandshakeReported ==
    DFinished =>
        \A mac \in {MacA, MacB} : \A k \in 1..2 :
            (WithinEvening(mac) /\ TimedTypes(mac) = Repeated(k)) =>
                /\ Cardinality(CompleteSequencesOf(mac)) = k
                /\ \A j \in CompleteSequencesOf(mac) :
                      TypesOf(d_analysis.dora_sequences[j].messages) = DoraPattern

\* the first handshake of two is reported complete with its own four
\* messages, and the messages that follow it are in no sequence
FirstHandshakeFrozen ==
    (DFinished /\ d_packets = TwoHandshakes) =>
        /\ Len(d_analysis.dora_sequences) = 1
        /\ d_analysis.dora_sequences[1].complete
        /\ [k \in 1..4 |-> d_analysis.dora_sequences[1].messages[k].frame_number]
              = <<<<49>>, <<50>>, <<51>>, <<52>>>>

----------------------------------------------------------------------------
(* Peers are kept apart.                                                   *)

\* analyze_dhcp_flow's loop over a whole capture
RECURSIVE DAnalyzeAll(_, _)
DAnalyzeAll(a, packets) ==
    IF packets = <<>> THEN a
    ELSE DAnalyzeAll(DAnalyzePacket(a, Head(packets)), Tail(packets))

\* the capture without the records of the other clients
OwnPackets(mac) ==
    SelectSeq(d_packets,
              LAMBDA p : /\ p.t = "obj"
                         /\ "dhcp.client_mac" \in DOMAIN p.layers
                         /\ p.layers["dhcp.client_mac"] = L(mac))

\* the matched types and the flag of the sequences reported for a peer
ResultsFor(sequences, mac) ==
    LET own == SelectSeq(sequences, LAMBDA q : q.client_mac = mac)
    IN  [k \in 1..Len(own) |->
            [matched_types |-> TypesOf(own[k].messages),
             complete |-> own[k].complete]]

\* what the peer gets when its records are the whole capture
ResultsAlone(mac) ==
    ResultsFor(
        IdentifyDoraSequences(
            DAnalyzeAll(DNewAnalysis(OwnPackets(mac)), OwnPackets(mac)).dhcp_messages),
        mac)

\* C18: sequences are never merged across peers: whatever the interleaving
\* of the peers' messages, a reported sequence holds only messages of its
\* own peer, and the matched types and completion flag reported for a peer
\* are those it gets when its messages are processed alone.
C18_PeersKeptApart ==
    DFinished =>
        /\ \A k \in 1..Len(d_analysis.dora_sequences) :
              \A j \in 1..Len(d_analysis.dora_sequences[k].messages) :
                 d_analysis.dora_sequences[k].messages[j].client_mac
                    = d_analysis.dora_sequences[k].client_mac
        /\ \A mac \in {MacA, MacB} :
              ResultsFor(d_analysis.dora_sequences, mac) = ResultsAlone(mac)

\* two peers ran their handshakes message by message in turn, the capture
\* held them last first, and both are reported complete
C18_Witness ==
    /\ d_pc = "analyzed"
    /\ d_packets = InterleavedReversed
    /\ HasCompleteSequence(MacA)
    /\ HasCompleteSequence(MacB)
    /\ Len(d_analysis.dora_sequences) = 2

----------------------------------------------------------------------------
(* The port and packet size rules of detect_anomalies.                     *)

\* the record has a source or a destination port
BearsPort(info) == info.src_port # <<48>> \/ info.dst_port # <<48>>

PortBearingRecords ==
    Cardinality({k \in 1..Len(p_packets) : BearsPort(p_packets[k])})

\* C19: CONCENTRATED_TRAFFIC is emitted exactly when the count of the most
\* frequent port is strictly above 0.50 times the number of port-bearing
\* records, and never when no record carries a port.
C19_PortConcentrationRule ==
    p_pc = "reported" =>
        Findings("CONCENTRATED_TRAFFIC") =
            (IF /\ PortBearingRecords > 0
                /\ 2 * MaxCount(p_stats.ports) > PortBearingRecords
             THEN 1 ELSE 0)

\* the rule as the code has it, against all records, and silent when no
\* record carries a port
PortRuleAgainstAllRecords ==
    p_pc = "reported" =>
        /\ Findings("CONCENTRATED_TRAFFIC") =
              (IF /\ PortBearingRecords > 0
                  /\ 2 * MaxCount(p_stats.ports) > Len(p_packets)
               THEN 1 ELSE 0)
        /\ (PortBearingRecords = 0 => Findings("CONCENTRATED_TRAFFIC") = 0)

\* the records whose size is above twice the mean size of the records
LargeRecords ==
    LET sizes == [k \in 1..Len(p_packets) |-> p_packets[k].size]
    IN  Cardinality({k \in 1..Len(sizes) :
                        sizes[k] * Len(sizes) > 2 * SumSeq(sizes)})

\* C20: LARGE_PACKETS counts the records whose length is strictly above
\* twice the mean length of all records; one finding carrying that count is
\* emitted when the count is not zero, none otherwise, and none when no
\* record was ingested.
C20_LargePacketsRule ==
    p_pc = "reported" =>
        /\ Findings("LARGE_PACKETS") = (IF LargeRecords > 0 THEN 1 ELSE 0)
        /\ \A k \in 1..Len(p_anomalies) :
              p_anomalies[k].kind = "LARGE_PACKETS" =>
                  p_anomalies[k].metric = LargeRecords
        /\ (p_packets = <<>> => p_anomalies = <<>>)

\* a capture of 50 records, 19 of them of 1448 bytes and the others empty,
\* was reported with the finding
C20_Witness ==
    /\ p_pc = "reported"
    /\ Len(p_packets) = 50
    /\ LargeRecords = 19
    /\ Findings("LARGE_PACKETS") = 1

----------------------------------------------------------------------------
(* The rules of detect_anomalies side by side.                             *)

\* the condition of each rule on the packets and counters of the engine
RuleHolds(kind) ==
    CASE kind = "HIGH_RESET_RATIO" ->
            10 * Cardinality({k \in 1..Len(p_packets) :
                                 InSeq("RST", p_packets[k].flags)})
               > p_stats.total_packets
      [] kind = "CONCENTRATED_TRAFFIC" ->
            \E port \in DOMAIN p_stats.ports :
                2 * p_stats.ports[port] > p_stats.total_packets
      [] kind = "LARGE_PACKETS" -> LargeRecords > 0

RuleKinds == {"HIGH_RESET_RATIO", "CONCENTRATED_TRAFFIC", "LARGE_PACKETS"}

\* C21: the rules are independent: the findings returned are exactly the
\* rules whose own condition holds, each at most once, whatever the other
\* rules do.
C21_RulesIndependent ==
    p_pc = "reported" =>
        /\ \A kind \in RuleKinds :
              Findings(kind) = (IF RuleHolds(kind) THEN 1 ELSE 0)
        /\ \A k \in 1..Len(p_anomalies) : p_anomalies[k].kind \in RuleKinds

\* a capture for which all three rules hold was reported with three
\* findings
C21_Witness ==
    /\ p_pc = "reported"
    /\ \A kind \in RuleKinds : RuleHolds(kind)
    /\ Len(p_anomalies) = 3


----------------------------------------------------------------------------
(* Reporting reads the counters and writes none.                           *)

\* C22: only ingestion changes the aggregate state: a run of the detector,
\* of the statistics and of the report, the first or a later one, leaves
\* the packets and every counter as they were, and a later run returns the
\* findings the earlier run returned.
C22_OnlyIngestionMutates ==
    [][p_calls' = p_calls =>
          /\ p_stats' = p_stats
          /\ p_packets' = p_packets
          /\ (p_pc = "reported" => p_anomalies' = p_anomalies)]_vars

\* the report of a capture with findings was generated a second time
C22_Witness ==
    /\ p_pc = "reported"
    /\ p_runs = 2
    /\ p_stats.total_packets > 0
    /\ p_stats.packet_sizes # <<>>
    /\ p_anomalies # <<>>

----------------------------------------------------------------------------
(* The transport ports of a record.                                        *)

\* every field of the record is a list of one string, and frame.len, when
\* present, is a number
WellFormedRecord(p) ==
    /\ p.t = "obj"
    /\ \A f \in DOMAIN p.layers : p.layers[f].t = "list" /\ Len(p.layers[f].v) = 1
    /\ "frame.len" \in DOMAIN p.layers => ParseInt(p.layers["frame.len"].v[1]).ok

\* the TCP port as the record has it, else the UDP port, else nothing
PortAsWritten(layers, tcpKey, udpKey) ==
    IF tcpKey \in DOMAIN layers THEN layers[tcpKey].v[1]
    ELSE IF udpKey \in DOMAIN layers THEN layers[udpKey].v[1]
    ELSE <<>>

\* C23: the ports of a record are its TCP ports in full when it has them,
\* else its UDP ports in full, else empty; a record with neither is
\* ingested like any other.
C23_PortPreference ==
    \A i \in 1..w_i :
        WellFormedRecord(w_packets[i]) =>
            /\ Ingested(w_packets[i])
            /\ WInfo(i).src_port =
                  PortAsWritten(w_packets[i].layers, "tcp.srcport", "udp.srcport")
            /\ WInfo(i).dst_port =
                  PortAsWritten(w_packets[i].layers, "tcp.dstport", "udp.dstport")

\* a record with TCP ports is ingested with its ports in full
TcpPortsInFull ==
    \A i \in 1..w_i :
        (WellFormedRecord(w_packets[i])
            /\ {"tcp.srcport", "tcp.dstport"} \subseteq DOMAIN w_packets[i].layers) =>
            /\ Ingested(w_packets[i])
            /\ WInfo(i).src_port = w_packets[i].layers["tcp.srcport"].v[1]
            /\ WInfo(i).dst_port = w_packets[i].layers["tcp.dstport"].v[1]

\* of a record with UDP ports only the first character of each port is
\* kept, and a record with no port at all is skipped
UdpPortsCutAndPortlessSkipped ==
    \A i \in 1..w_i :
        /\ w_packets[i] = PktDnsAA =>
              Ingested(w_packets[i]) /\ WInfo(i).src_port = <<53>>
                                     /\ WInfo(i).dst_port = <<53>>
        /\ w_packets[i] = PktArp => ~Ingested(w_packets[i])

----------------------------------------------------------------------------
(* Records without a protocol stack.                                       *)

\* "unknown"
NameUnknown == <<117, 110, 107, 110, 111, 119, 110>>

\* the well-formed records read so far that have no frame.protocols field
WithoutStack ==
    {i \in 1..w_i : /\ WellFormedRecord(w_packets[i])
                    /\ "frame.protocols" \notin DOMAIN w_packets[i].layers}

ProtocolCount(name) ==
    IF name \in DOMAIN w_analysis.protocols THEN w_analysis.protocols[name] ELSE 0

\* C24: a record without a protocol-stack field is accepted and counted
\* under the protocol name "unknown", one count per such record.
C24_UnknownProtocol ==
    /\ \A i \in WithoutStack : Ingested(w_packets[i])
    /\ ProtocolCount(NameUnknown) = Cardinality(WithoutStack)

\* such a record is accepted, with its endpoints, and no protocol is
\* counted for it: the protocol counts add up to the stack lengths of the
\* ingested records
NoStackNoProtocol ==
    /\ \A i \in WithoutStack : Ingested(w_packets[i]) /\ StackOf(i) = <<>>
    /\ (w_i = 1 /\ w_packets[1] = PktNoProto) =>
          /\ w_analysis.protocols = EmptyDict
          /\ w_analysis.endpoints[HostC] = 1
          /\ w_analysis.endpoints[HostA] = 1
    /\ NameUnknown \notin DOMAIN w_analysis.protocols

----------------------------------------------------------------------------
(* One record's path in the protocol hierarchy.                            *)

\* the nodes on the path of a stack: its non-empty prefixes
Prefixes(stack) == {SubSeq(stack, 1, j) : j \in 1..Len(stack)}

\* C25: ingesting a record with the stack p1:...:pk (empty segments
\* dropped) leaves the path p1 -> ... -> pk in the hierarchy, adds exactly 1
\* to the count of each of its k nodes, also when a name repeats in the
\* stack, and leaves every other node as it was.
C25_PathCountsByOne ==
    [][(w_i' = w_i + 1 /\ Ingested(w_packets[w_i + 1])) =>
          LET stack == StackOf(w_i + 1)
              h     == w_analysis.protocol_hierarchy
              h2    == w_analysis'.protocol_hierarchy
          IN  /\ DOMAIN h2 = DOMAIN h \cup Prefixes(stack)
              /\ \A q \in DOMAIN h2 :
                    h2[q] = (IF q \in DOMAIN h THEN h[q] ELSE 0)
                            + (IF q \in Prefixes(stack) THEN 1 ELSE 0)]_vars

\* after eth:ip:tcp the stack eth:ip:ip was ingested twice: three nodes on
\* its path, eth/ip/ip at 2, and eth/ip/tcp still at 1
C25_Witness ==
    /\ w_i = 3
    /\ w_packets = <<PktTcpAB, PktTunnel, PktTunnel>>
    /\ w_analysis.protocol_hierarchy[<<NameEth, NameIp, NameIp>>] = 2
    /\ w_analysis.protocol_hierarchy[<<NameEth, NameIp>>] = 3
    /\ w_analysis.protocol_hierarchy[<<NameEth, NameIp, NameTcp>>] = 1

----------------------------------------------------------------------------
(* A capture that gives no data.                                           *)

\* tshark did not run to the end, or it printed nothing
TCaptureUnavailable == t_pc \notin {"start", "parse"} /\ Strip(t_payload) = <<>>

\* C26: a capture that fails to start or yields no data whatsoever is
\* fatal: the failure is surfaced and the run stops before any aggregation
\* step, statistics computation or report write.
C26_CaptureFailureStopsRun ==
    TCaptureUnavailable =>
        /\ t_error # ""
        /\ t_i = 0
        /\ t_report = <<>>
        /\ t_pc \in {"analyzed", "failed", "exited"}
        /\ (t_pc = "exited" => t_exit # 0)

\* the run stops before the loop, and without a report, when tshark itself
\* fails, and the run over an empty payload never enters the loop
StopsWhenTsharkFails ==
    /\ t_error = "Failed to read pcap file" =>
          t_i = 0 /\ t_report = <<>> /\ t_pc \in {"failed", "exited"}
    /\ TCaptureUnavailable => t_error # "" /\ t_i = 0

\* the wireshark run with no packets stops before analyze_packets and
\* generate_report
WiresharkStopsWithoutPackets ==
    w_packets = <<>> =>
        /\ w_pc \in {"start", "failed"}
        /\ w_i = 0
        /\ w_report = <<>>
        /\ w_analysis = NewAnalysis(<<>>)

----------------------------------------------------------------------------
(* Batches and arrival order.                                              *)

\* the engine after one call with the given lines
ParsedInOne(lines) == ParseLinesInto([packets |-> <<>>, stats |-> PNewStats], lines)

\* the counters of the engine, the per-connection lists by their length and
\* the size list by its sum
CountsOf(st) ==
    [total_packets |-> st.total_packets, protocols |-> st.protocols,
     hosts |-> st.hosts, ports |-> st.ports,
     connections |-> [c \in DOMAIN st.connections |-> Len(st.connections[c])],
     total_bytes |-> SumSeq(st.packet_sizes)]

Swapped(q, i, j) ==
    [k \in 1..Len(q) |-> IF k = i THEN q[j] ELSE IF k = j THEN q[i] ELSE q[k]]

Reversed(q) == [k \in 1..Len(q) |-> q[Len(q) + 1 - k]]

\* C27: aggregation is streaming and order-insensitive: the lines fed in
\* successive batches leave the engine as the same lines fed in one batch
\* do, and the same lines in another order leave the same counts.
C27_BatchesAndOrder ==
    /\ [packets |-> p_packets, stats |-> p_stats] = ParsedInOne(p_fed)
    /\ CountsOf(ParsedInOne(Reversed(p_fed)).stats) = CountsOf(p_stats)
    /\ Len(p_fed) <= MaxFed =>
          \A i \in 1..Len(p_fed) : \A j \in 1..Len(p_fed) :
              CountsOf(ParsedInOne(Swapped(p_fed, i, j)).stats) = CountsOf(p_stats)

\* two lines were parsed in one call and a third, of another protocol and
\* other ports, in a second call
C27_Witness ==
    /\ p_calls = 2
    /\ p_fed = <<LnAck, LnRstAck, LnIcmp>>
    /\ p_stats.total_packets = 3
    /\ Len(p_packets) = 3

\* the aggregates of analyze_packets that are counts
WCountsOf(a) ==
    [total_packets |-> a.total_packets, total_bytes |-> a.total_bytes,
     protocols |-> a.protocols, endpoints |-> a.endpoints,
     conversations |-> a.conversations,
     protocol_hierarchy |-> a.protocol_hierarchy]

\* the wireshark run over the same packets in another order ends with the
\* same counts
WOrderInsensitive ==
    WFinished =>
        /\ WCountsOf(AnalyzeAll(Reversed(w_packets))) = WCountsOf(w_analysis)
        /\ \A i \in 1..Len(w_packets) : \A j \in 1..Len(w_packets) :
              WCountsOf(AnalyzeAll(Swapped(w_packets, i, j))) = WCountsOf(w_analysis)

----------------------------------------------------------------------------
(* The counters of the tcpdump engine agree with one another.              *)

\* the line gives a packet_info
Parses(line) == ~line.blank /\ ParsePacketLine(line).ok

\* C28: after any calls of parse_tcpdump_output, total_packets is the
\* number of stored packets, the sum of the protocol counts, the number of
\* recorded sizes and of recorded timestamps, and the number of packets in
\* all connection lists together; a line that fails to parse changes none
\* of them.
C28_CountersAgree ==
    /\ p_stats.total_packets = Len(p_packets)
    /\ p_stats.total_packets = SumValues(p_stats.protocols)
    /\ p_stats.total_packets = Len(p_stats.packet_sizes)
    /\ p_stats.total_packets = Len(p_stats.timestamps)
    /\ p_stats.total_packets =
          SumValues([c \in DOMAIN p_stats.connections |-> Len(p_stats.connections[c])])
    /\ [packets |-> p_packets, stats |-> p_stats] =
          ParsedInOne(SelectSeq(p_fed, Parses))

\* two calls have fed a TCP line, a line that does not parse and an ICMP
\* line
C28_Witness ==
    /\ p_calls = 2
    /\ p_fed = <<LnSyn, LnArp, LnIcmp>>
    /\ p_stats.total_packets = 2
    /\ DOMAIN p_stats.protocols = {"TCP", "ICMP"}

----------------------------------------------------------------------------
(* What the DHCP matcher reports for a client.                             *)

\* the messages in the order of the instants their timestamps name, ties
\* in the order of arrival
InsertByInstant(sorted, m) ==
    LET later == {k \in 1..Len(sorted) : Earlier(m.timestamp, sorted[k].timestamp)}
        at == IF later = {} THEN Len(sorted) + 1
              ELSE CHOOSE k \in later : \A j \in later : k <= j
    IN  SubSeq(sorted, 1, at - 1) \o <<m>> \o SubSeq(sorted, at, Len(sorted))

RECURSIVE SortByInstant(_)
SortByInstant(msgs) ==
    IF msgs = <<>> THEN <<>>
    ELSE InsertByInstant(SortByInstant(SubSeq(msgs, 1, Len(msgs) - 1)),
                         msgs[Len(msgs)])

\* the types of the client's messages of the four pattern types, taken from
\* the ordered list of its messages
PatternTypes(ordered) ==
    TypesOf(SelectSeq(ordered, LAMBDA m : InPattern(m.message_type.name)))

\* where the first DISCOVER, OFFER, REQUEST, ACK in a row ends, 0 if there
\* is none
FirstRunEnd(types) ==
    LET ends == {n \in 4..Len(types) : SubSeq(types, n - 3, n) = DoraPattern}
    IN  IF ends = {} THEN 0 ELSE CHOOSE n \in ends : \A m \in ends : n <= m

\* at most one sequence for the client; it is complete iff the types hold
\* the four in a row, and then it stops at the first such ACK
ReportedAsRun(mac, types) ==
    /\ Cardinality(SequencesOf(mac)) <= 1
    /\ (SequencesOf(mac) = {}) <=> (types = <<>>)
    /\ \A k \in SequencesOf(mac) :
          LET q == d_analysis.dora_sequences[k] IN
          /\ q.complete <=> (FirstRunEnd(types) > 0)
          /\ TypesOf(q.messages) =
                (IF q.complete THEN SubSeq(types, 1, FirstRunEnd(types)) ELSE types)
          /\ q.complete =>
                SubSeq(TypesOf(q.messages), Len(q.messages) - 3, Len(q.messages))
                   = DoraPattern

----------------------------------------------------------------------------
(* The protocol a line of tcpdump text is counted under.                   *)

\* the protocol the markers of a line name: UDP for port-qualified
\* addresses followed by the UDP marker, ICMP for addresses without ports
\* followed by the ICMP marker, TCP for the other port-qualified lines
MarkedProtocol(line) ==
    IF line.form = "ports" /\ line.marker = "UDP" THEN "UDP"
    ELSE IF line.form = "noports" /\ line.marker = "ICMP" THEN "ICMP"
    ELSE "TCP"

\* how many stored packets carry the protocol
PacketsUnder(proto) ==
    Cardinality({i \in 1..Len(p_packets) : p_packets[i].protocol = proto})

\* the values a stored packet adds to the port counts
PortsCounted(info) ==
    (IF info.src_port # <<48>> THEN 1 ELSE 0) + (IF info.dst_port # <<48>> THEN 1 ELSE 0)

\* C30: every parsed line is counted under exactly one protocol, the one
\* its markers name: UDP (not TCP) for a port-qualified line with the UDP
\* marker, ICMP with both ports '0' and no port count for a line with the
\* ICMP marker and no ports, TCP only for the remaining port-qualified
\* lines.
C30_ProtocolOfLine ==
    /\ \A i \in 1..Len(p_packets) :
          /\ p_packets[i].protocol = MarkedProtocol(p_packets[i].raw_line)
          /\ p_packets[i].protocol = "ICMP" =>
                p_packets[i].src_port = <<48>> /\ p_packets[i].dst_port = <<48>>
    /\ \A proto \in {"TCP", "UDP", "ICMP"} :
          PacketsUnder(proto) =
             (IF proto \in DOMAIN p_stats.protocols THEN p_stats.protocols[proto] ELSE 0)
    /\ <<48>> \notin DOMAIN p_stats.ports

\* each parsed line is counted once, under TCP or ICMP; the ICMP lines are
\* those with the ICMP marker and no ports, stored with both ports '0' and
\* kept out of the port counts, which hold two entries per other packet
OneProtocolPerLine ==
    /\ Len(p_packets) = Len(SelectSeq(p_fed, Parses))
    /\ DOMAIN p_stats.protocols \subseteq {"TCP", "ICMP"}
    /\ \A proto \in {"TCP", "ICMP"} :
          PacketsUnder(proto) =
             (IF proto \in DOMAIN p_stats.protocols THEN p_stats.protocols[proto] ELSE 0)
    /\ PacketsUnder("TCP") + PacketsUnder("ICMP") = p_stats.total_packets
    /\ \A i \in 1..Len(p_packets) :
          LET info == p_packets[i] IN
          /\ info.protocol = "ICMP" <=>
                info.raw_line.form = "noports" /\ info.raw_line.marker = "ICMP"
          /\ info.protocol = "ICMP" => info.src_port = <<48>> /\ info.dst_port = <<48>>
          /\ info.protocol = "TCP" <=> info.raw_line.form = "ports"
    /\ <<48>> \notin DOMAIN p_stats.ports
    /\ SumValues(p_stats.ports) = 2 * PacketsUnder("TCP")

\* a datagram with the UDP marker is stored and counted as TCP
UdpLineUnderTcp ==
    /\ p_fed = <<LnUdp>>
    /\ p_packets[1].protocol = "TCP"
    /\ p_stats.protocols = ("TCP" :> 1)

====
